---- MODULE Spec2Model ----
(***************************************************************************)
(* Consent ledger, guarded DSO calls, subscription coordination and        *)
(* stream publisher of the SGE tiers proxy (sgeproxy/db.py,                *)
(* sgeproxy/xmpp_interface.py, sgeproxy/do_renew_subscriptions.py,         *)
(* sgeproxy/publisher.py, sgeproxy/streams.py, sgeproxy/sge.py).           *)
(*                                                                         *)
(* Time is a small integer clock.  One tick stands for half a year, so     *)
(* that the 365 days of an upstream order are two ticks.                   *)
(* The proxy process handles one submission at a time (its handlers are    *)
(* synchronous); the renewal script is a second process on the same store. *)
(* A step of a process runs from one commit / DSO call to the next.        *)
(*                                                                         *)
(* resp, resolved, goc and scope record what the last step answered,       *)
(* resolved, looked up or left; every step overwrites them.                *)
(*                                                                         *)
(* Spec is the proxy process alone with every kind of submission;          *)
(* SpecStore adds the renewal script and the updates of consents, on the   *)
(* index series of one usage point.  SpecPublisher is the publisher        *)
(* script, run on the files the DSO drops in the inbox, over a store that  *)
(* holds two subscriptions; a step of the publisher reads one file or      *)
(* runs from one commit / send to the next.  sent records the              *)
(* notification-check scope the last step of the publisher entered or      *)
(* left.                                                                   *)
(*                                                                         *)
(* SpecConsent, SpecExpired, SpecConverter, SpecR171, SpecR50, SpecKeys    *)
(* and SpecSubscribe apply one function each to inputs drawn from bounded  *)
(* sets: User.consent_for to any consents table,                           *)
(* Subscription.expired_calls to any orders of a subscription, the exit of *)
(* SgeErrorConverter to the exceptions its body can raise, R171.records    *)
(* and R50.records to files of a few series or samples,                    *)
(* StreamsFiles.file_records to a file and the configured keys, and        *)
(* sge.Subscribe.subscribe to the orders of a process.  resolved, expired, *)
(* conv, parser, reader and demande hold what was applied and what it      *)
(* gave; PARAMS is the class attribute Subscribe.PARAMS.                   *)
(***************************************************************************)
EXTENDS Integers, Sequences, FiniteSets, TLC

\* ---------------------------------------------------------------- bounds
MaxTime == 2
MaxCalls == 2
MaxSubs == 2
MaxUpdates == 1
MaxFiles == 2
MaxRuns == 2
\* serieMesuresDatees elements of an R171 file
MaxElements == 3
\* key pairs in the configuration of the publisher
MaxKeys == 2
\* PDC elements of a PRM of an R50 file
MaxSamples == 5

\* ------------------------------------------------------ program constants
\* dt.timedelta(days=365), in ticks of the model clock
Days365 == 2

\* GROUP_FILES (10 in the source), in files of the model
GroupFiles == 2
\* chunk_size of RecordsByName.get (1000 in the source)
ChunkSize == 2
\* conf["streams"]["keys"], in the order of the configuration
Keys == <<1, 2>>

Users == {"alice", "bob"}
\* a jid that has no row in the users table
Stranger == "mallory"
UsagePoints == {"p1", "p2"}
ConsentIds == {1, 2}

\* series names, as the sequence of their path segments
RawSeries == <<"consumption", "power", "active", "raw">>
IndexSeries == <<"consumption", "energy", "active", "index">>
MaxSeries == <<"consumption", "power", "apparent", "max">>
SupportedSeries == {RawSeries, IndexSeries, MaxSeries}
UnsupportedSeries == <<"production", "power", "active", "raw">>

HistoryService == "ConsultationMesuresDetaillees-v2.0"
TechnicalService == "ConsultationDonneesTechniquesContractuelles-v1.0"
SubscribeService == "CommandeCollectePublicationMesures-v3.0"

Null == "null"
\* a null date
NoDate == -1

\* ------------------------------------------------------------ exceptions
NoException == [type |-> "None", code |-> "", message |-> ""]
SgeError(code, message) == [type |-> "SgeError", code |-> code, message |-> message]
ValueError == [type |-> "ValueError", code |-> "", message |-> "invalid literal"]
PermissionError(message) == [type |-> "PermissionError", code |-> "", message |-> message]
IntegrityError == [type |-> "IntegrityError", code |-> "", message |-> "violates constraint"]

\* what the DSO operations can end with
HistoryOutcomes == {NoException, SgeError("SGT500", "erreur technique")}
TechnicalOutcomes == {NoException, SgeError("SGT500", "erreur technique")}
SubscribeOutcomes == {NoException, SgeError("SGT570", "service deja actif"),
                      SgeError("SGT500", "erreur technique")}

\* SgeError.__str__ / Exception.__str__
Str(ex) ==
    IF ex.type = "SgeError" /\ ex.code # ""
    THEN ex.code \o ": " \o ex.message
    ELSE ex.message

\* ------------------------------------------------- SgeErrorConverter
\* str(int)
RECURSIVE Decimal(_)
Decimal(n) ==
    LET digits == <<"0", "1", "2", "3", "4", "5", "6", "7", "8", "9">>
    IN  IF n < 10 THEN digits[n + 1] ELSE Decimal(n \div 10) \o digits[(n % 10) + 1]

\* str(value), for the values that are not tuples
PyStrOf(value) ==
    CASE value.tag = "int" -> Decimal(value.int)
      [] value.tag = "str" -> value.str
      [] OTHER -> "None"

\* an exception object: id tells one object from another; fault is the
\* SOAP fault a suds.WebFault carries, with or without
\* detail.erreur.resultat
NoFault == [resultat |-> FALSE, value |-> "", code |-> ""]
Fault(value, code) == [resultat |-> TRUE, value |-> value, code |-> code]
Raised(id, type, args, fault) ==
    [id |-> id, type |-> type, args |-> args, fault |-> fault,
     message |-> "", code |-> ""]
Nothing == Raised(0, "None", <<>>, NoFault)
NewSgeError(id, message, code) ==
    [Raised(id, "SgeError", <<>>, NoFault) EXCEPT !.message = message, !.code = code]

\* SgeError(message, code) with the two arguments in the other order
HttpErrorSwapped(id, status, reason) ==
    NewSgeError(id, PyStrOf(status), PyStrOf(reason))

\* code = str(args[0][0]); reason = str(args[0][1]); SgeError(reason, code)
HttpError(id, status, reason) ==
    NewSgeError(id, PyStrOf(reason), PyStrOf(status))

\* SgeErrorConverter.__exit__(ex_type, ex_val, tb): the exception that
\* leaves the with block; id is the identity of an object __exit__ creates.
\* len() is defined for strings and tuples only, and an element of a string
\* is a string
SgeErrorConverterExit(ex, id) ==
    LET arg == ex.args[1]
        has_len == arg.tag \in {"str", "tuple"}
        len == IF arg.tag = "str" THEN Len(arg.str) ELSE Len(arg.items)
        first_is_int == arg.tag = "tuple" /\ arg.items[1].tag = "int"
    IN
    IF ex.type = "WebFault"
    THEN IF ex.fault.resultat
         THEN NewSgeError(id, ex.fault.value, ex.fault.code)
         ELSE Raised(id, "AttributeError", <<>>, NoFault)
    ELSE IF ex.type = "Exception" /\ Len(ex.args) = 1
         THEN IF ~ has_len
              THEN Raised(id, "TypeError", <<>>, NoFault)
              ELSE IF len = 2 /\ first_is_int
                   THEN HttpError(id, arg.items[1], arg.items[2])
                   ELSE ex
         ELSE ex

\* no block is open
IdleC == [pc |-> "idle", ex |-> Nothing, out |-> Nothing]

\* what the body of a block can raise: exceptions of several classes, whose
\* arguments are python values (int, str, None, tuples of these)
Raisable ==
    LET PyInt(n) == [tag |-> "int", int |-> n, str |-> "", items |-> <<>>]
        PyStr(t) == [tag |-> "str", int |-> 0, str |-> t, items |-> <<>>]
        PyNone == [tag |-> "NoneType", int |-> 0, str |-> "", items |-> <<>>]
        PyTuple(items) == [tag |-> "tuple", int |-> 0, str |-> "", items |-> items]
        scalars == {PyInt(503), PyStr("Service Unavailable"), PyStr("ab"), PyNone}
        tuples ==
            {PyTuple(<<>>)} \cup {PyTuple(<<a>>) : a \in scalars}
                \cup {PyTuple(<<a, b>>) : a \in scalars, b \in scalars}
                \cup {PyTuple(<<PyInt(503), PyStr("Service Unavailable"), PyNone>>)}
        arguments ==
            {<<>>} \cup {<<a>> : a \in scalars \cup tuples}
                \cup {<<a, b>> : a \in scalars, b \in scalars}
    IN  {Raised(1, type, args, NoFault) :
            type \in {"Exception", "RuntimeError", "KeyError"}, args \in arguments}
            \cup {Raised(1, "WebFault", <<>>, fault) :
                    fault \in {NoFault, Fault("erreur technique", "SGT500"),
                               Fault("service deja actif", "SGT570")}}

\* ---------------------------------------------------- dicts and lists
\* the elements of a sequence, each once, in the order of first appearance
\* (the key order of a dict)
RECURSIVE Distinct(_)
Distinct(seq) ==
    IF seq = <<>>
    THEN <<>>
    ELSE LET d == Distinct(SubSeq(seq, 1, Len(seq) - 1))
         IN  IF \E i \in DOMAIN d : d[i] = seq[Len(seq)]
             THEN d
             ELSE Append(d, seq[Len(seq)])

\* the lists of a sequence of lists, one after the other
RECURSIVE Concat(_)
Concat(seqs) == IF seqs = <<>> THEN <<>> ELSE Head(seqs) \o Concat(Tail(seqs))

\* ------------------------------------------------------------ R171
\* Record(name, time, unit, value) and the metadata it is yielded with
Record(name, time, unit, value, meta) ==
    [name |-> name, time |-> time, unit |-> unit, value |-> value, meta |-> meta]

\* a value that is None
NoValue == -1

\* R171.records, from one serieMesuresDatees to the loop over its
\* measurements: the name and the metadata its records get, or that the
\* series is not handled, or that an exception is raised
Handled(serie) ==
    LET direction == IF serie.grandeurMetier = "CONS" THEN "consumption"
                     ELSE "production"
        owner == IF serie.typeCalendrier = "D" THEN "distributor" ELSE "provider"
        kind == CASE serie.grandeurPhysique = "PMA" /\ serie.unite = "VA" ->
                       <<"power", "apparent", "max">>
                  [] serie.grandeurPhysique = "PMA" /\ serie.unite = "W" ->
                       <<"power", "active", "max">>
                  [] serie.grandeurPhysique = "EA" -> <<"energy", "active", "index">>
                  [] OTHER -> <<>>
    IN  [raises |-> \/ serie.grandeurMetier \notin {"CONS", "PROD"}
                    \/ serie.grandeurPhysique = "PMA" /\ serie.unite \notin {"VA", "W"}
                    \/ serie.grandeurPhysique = "EA" /\ serie.unite # "Wh",
         skipped |-> serie.grandeurPhysique \notin {"PMA", "EA"},
         name |-> <<serie.prmId,
                    <<direction>> \o kind \o <<owner, serie.codeClasseTemporelle>>>>,
         meta |-> <<serie.prmId, <<"consumption">> \o kind>>,
         kind |-> kind,
         counted |-> owner = "distributor" /\ direction = "consumption"]

\* the records yielded for the measurements, series after series, until an
\* exception is raised
RECURSIVE Measured(_)
Measured(series) ==
    IF series = <<>>
    THEN [records |-> <<>>, counted |-> <<>>, raised |-> FALSE]
    ELSE LET serie == Head(series)
             hd == Handled(serie)
             rest == Measured(Tail(series))
             mine == [i \in DOMAIN serie.mesures |->
                         Record(hd.name, serie.mesures[i].dateFin, serie.unite,
                                serie.mesures[i].valeur, hd.meta)]
         IN  IF hd.raises
             THEN [records |-> <<>>, counted |-> <<>>, raised |-> TRUE]
             ELSE IF hd.skipped
             THEN rest
             ELSE [records |-> mine \o rest.records,
                   counted |-> [i \in DOMAIN mine |-> hd.counted] \o rest.counted,
                   raised |-> rest.raised]

\* an accumulation that would keep the last value
AccumulatedLast(records, counted, key, kind) ==
    LET Mine(i) == /\ counted[i]
                   /\ records[i].name[1] = key[1]
                   /\ records[i].time = key[2]
                   /\ records[i].meta[2] = <<"consumption">> \o kind
        mine == {i \in DOMAIN records : Mine(i)}
    IN  IF mine = {} THEN NoValue
        ELSE records[CHOOSE i \in mine : \A j \in mine : j <= i].value

\* computed_records[usage_point][time][kind].value after the measurements:
\* the sum of the index values, the largest of the max values, of the
\* consumption series of the distributor calendar
RECURSIVE Accumulated(_, _, _, _)
Accumulated(records, counted, key, kind) ==
    IF records = <<>>
    THEN NoValue
    ELSE LET n == Len(records)
             before == Accumulated(SubSeq(records, 1, n - 1),
                                   SubSeq(counted, 1, n - 1), key, kind)
             rec == records[n]
         IN  IF /\ counted[n]
                /\ rec.name[1] = key[1]
                /\ rec.time = key[2]
                /\ rec.meta[2] = <<"consumption">> \o kind
             THEN IF before = NoValue THEN rec.value
                  ELSE IF kind = <<"energy", "active", "index">>
                  THEN before + rec.value
                  ELSE IF before < rec.value THEN rec.value ELSE before
             ELSE before

\* the last loop of R171.records: the computed records that have a value,
\* by usage point and then by time in the order they were first met
Computed(records, counted) ==
    LET ups == Distinct([i \in DOMAIN records |-> records[i].name[1]])
        TimesOf(up) ==
            LET Of(rec) == rec.name[1] = up
                mine == SelectSeq(records, Of)
            IN  Distinct([i \in DOMAIN mine |-> mine[i].time])
        keys == Concat([u \in DOMAIN ups |->
                          [t \in DOMAIN TimesOf(ups[u]) |-> <<ups[u], TimesOf(ups[u])[t]>>]])
        kinds == <<<<"power", "apparent", "max">>, <<"power", "active", "max">>,
                   <<"energy", "active", "index">>>>
        UnitOf(kind) == CASE kind[2] = "apparent" -> "VA"
                          [] kind[1] = "energy" -> "Wh"
                          [] OTHER -> "W"
        all == Concat([k \in DOMAIN keys |->
                         [m \in DOMAIN kinds |->
                             Record(<<keys[k][1], <<"consumption">> \o kinds[m]>>,
                                    keys[k][2], UnitOf(kinds[m]),
                                    Accumulated(records, counted, keys[k], kinds[m]),
                                    <<keys[k][1], <<"consumption">> \o kinds[m]>>)]])
        HasValue(rec) == rec.value # NoValue
    IN  SelectSeq(all, HasValue)

\* R171.records: what the generator yields, and whether it ends with an
\* exception
R171_records(series) ==
    LET m == Measured(series)
    IN  [records |-> IF m.raised THEN m.records
                     ELSE m.records \o Computed(m.records, m.counted),
         raised |-> m.raised]

\* -------------------------------------------------------------------- R50
\* R50.records of a file [period, prms]: period is Pas_Publication, a PRM
\* is [id, pdc] and a PDC is [H, V], H in minutes and V NoValue when the
\* element has no value (IV is only logged).  The records that are yielded
\* before the generator ends or an assertion fails, and whether one fails.
\* statistics.median is compared through its double, which is an integer
R50_records(file) ==
    LET period_minutes == file.period
        \* the k-th smallest element of a list
        Kth(x, k) ==
            CHOOSE v \in {x[i] : i \in DOMAIN x} :
                /\ Cardinality({i \in DOMAIN x : x[i] < v}) < k
                /\ k <= Cardinality({i \in DOMAIN x : x[i] <= v})
        TwiceMedian(x) == Kth(x, (Len(x) + 1) \div 2) + Kth(x, Len(x) \div 2 + 1)
        Of(prm) ==
            LET meta == <<prm.id, "PT30M">>
                name == <<prm.id, <<"consumption", "power", "active", "raw">>>>
                valued == SelectSeq(prm.pdc, LAMBDA pdc : pdc.V # NoValue)
                records == [k \in DOMAIN valued |->
                               <<valued[k].H - period_minutes, valued[k].V>>]
                n == Len(records)
                \* sorted(datetime for datetime, _ in records)
                datetimes == [k \in 1 .. n |->
                                 Kth([m \in 1 .. n |-> records[m][1]], k)]
                \* [j - i for i in datetimes[:-1] for j in datetimes[1:]]
                periods == [m \in 1 .. (IF n = 0 THEN 0 ELSE (n - 1) * (n - 1)) |->
                               datetimes[((m - 1) % (n - 1)) + 2]
                                   - datetimes[((m - 1) \div (n - 1)) + 1]]
                failed == periods # <<>> /\ TwiceMedian(periods) # 2 * period_minutes
            IN  [raised |-> failed,
                 records |-> IF failed THEN <<>>
                             ELSE [k \in DOMAIN records |->
                                      Record(name, records[k][1], "W", records[k][2],
                                             meta)]]
        failing == {i \in DOMAIN file.prms : Of(file.prms[i]).raised}
        read == {i \in DOMAIN file.prms : \A j \in failing : i < j}
    IN  IF period_minutes # 30
        THEN [records |-> <<>>, raised |-> TRUE]
        ELSE [records |-> Concat([i \in read |-> Of(file.prms[i]).records]),
              raised |-> failing # {}]

\* expired_calls was not applied
NoExpired == [key |-> [user_id |-> "", usage_point_id |-> "", series_name |-> <<>>],
              t |-> 0, raised |-> FALSE, calls |-> {}]

\* no file was given to the parser
NoFile == [pc |-> "none", series |-> <<>>, records |-> <<>>, raised |-> FALSE]

\* the series an R171 file is made of: indexes of three classes, at one or
\* two instants, maxima in VA and in W, series of the provider calendar, of
\* a production, of a quantity that is not handled, and one with a unit
\* that is refused
R171Series ==
    LET MesureDatee(dateFin, valeur) == [dateFin |-> dateFin, valeur |-> valeur]
        SerieMesuresDatees(prmId, metier, physique, unite, classe, calendrier, mesures) ==
            [prmId |-> prmId, grandeurMetier |-> metier, grandeurPhysique |-> physique,
             unite |-> unite, codeClasseTemporelle |-> classe,
             typeCalendrier |-> calendrier, mesures |-> mesures]
        Index(prm, classe, value, n) ==
            SerieMesuresDatees(prm, "CONS", "EA", "Wh", classe, "D",
                [i \in 1 .. n |-> MesureDatee(i, value + i - 1)])
        Other(prm, metier, physique, unite, calendrier, value) ==
            SerieMesuresDatees(prm, metier, physique, unite, "hph", calendrier,
                <<MesureDatee(1, value)>>)
    IN  {Index("p1", "hph", 100, n) : n \in 1 .. 2}
            \cup {Index("p1", "hpb", 200, 1), Index("p1", "hch", 300, 1),
                  Index("p2", "hph", 100, 1)}
            \cup {SerieMesuresDatees("p1", "CONS", "PMA", "VA", "hch", "D",
                                     <<MesureDatee(1, 9)>>),
                  Other("p1", "CONS", "PMA", "VA", "D", 7),
                  Other("p2", "CONS", "PMA", "W", "D", 5),
                  Other("p1", "CONS", "EA", "Wh", "F", 150),
                  Other("p1", "PROD", "EA", "Wh", "D", 50),
                  Other("p1", "CONS", "ER", "VArh", "D", 30),
                  Other("p1", "CONS", "PMA", "kW", "D", 1)}

VARIABLES
    now,                    \* wall clock
    import_time,            \* value of now_local() when sgeproxy.db was imported by the proxy
    users,                  \* table users
    usage_points,           \* table usage_points (ids)
    segment_known,          \* usage points whose segment is not null
    level_known,            \* usage points whose service_level is not null
    consents,               \* table consents: id -> row
    consents_users,         \* table consents_users
    consents_usage_points,  \* table consents_usage_points
    webservices_calls,      \* table webservices_calls: sequence of rows, id = index
    subscriptions,          \* table subscriptions
    orders,                 \* table webservices_calls_subscriptions, id = index
    subscriptions_calls,    \* table subscriptions_calls
    h,                      \* the submission the proxy is handling
    r,                      \* the renewal run
    dso_log,                \* DSO operations started so far
    resp,                   \* the answer the proxy gave in the last step, if any
    resolved,               \* the application of consent_for in the last step, if any
    goc,                    \* the get_or_call_sge_subscription of the last step, if any
    scope,                  \* the CheckedWebserviceCall scope left in the last step, if any
    updates,                \* number of consent updates done
    inbox,                  \* files in the inbox directory tree
    archive,                \* files in archive/<today>/
    errors,                 \* files in errors/<today>/
    temp_dirs,              \* temporary decryption directories on disk
    arrived,                \* files the DSO has dropped in the inbox so far
    pub,                    \* the publisher run
    delivered,              \* files of which a record was sent to a subscriber
    sent,                   \* the notification-check scope of the last step, if any
    conv,                   \* a with SgeErrorConverter() block
    parser,                 \* an R171 or R50 file and what its records() yields
    expired,                \* the application of expired_calls in the last step, if any
    reader,                 \* a stream file, a list of keys and what reading gave
    PARAMS,                 \* sge.Subscribe.PARAMS, the class attribute
    demande                 \* the last request sge.Subscribe.subscribe sent, if any

store == <<users, usage_points, segment_known, level_known, consents, consents_users,
           consents_usage_points, webservices_calls, subscriptions, orders,
           subscriptions_calls>>
vars == <<now, import_time, users, usage_points, segment_known, level_known, consents,
          consents_users, consents_usage_points, webservices_calls, subscriptions,
          orders, subscriptions_calls, h, resp, r, dso_log, resolved, goc, scope,
          updates, inbox, archive, errors, temp_dirs, arrived, pub, delivered, sent,
          conv, parser, expired, reader, PARAMS, demande>>

\* the directories of the publisher and its run
disk == <<inbox, archive, errors, temp_dirs, arrived>>
publisher == <<pub, delivered, sent>>
blocks == <<conv, parser, expired, reader, PARAMS, demande>>

Min(a, b) == IF a <= b THEN a ELSE b

\* --------------------------------------------------------- consent resolver
\* User.restricted_consent_for: the rows the three successive queries keep;
\* cup is the consents_usage_points table as the session sees it
LinkedConsents(cup, u, p) ==
    {c \in ConsentIds : <<c, u>> \in consents_users /\ <<c, p>> \in cup}

BegunConsents(cup, u, p, t) ==
    {c \in LinkedConsents(cup, u, p) : t >= consents[c].begins_at}

\* a third query that would keep a consent at the instant it expires
ValidConsentsInclusive(cup, u, p, t) ==
    {c \in BegunConsents(cup, u, p, t) : t <= consents[c].expires_at}

ValidConsents(cup, u, p, t) ==
    {c \in BegunConsents(cup, u, p, t) : t < consents[c].expires_at}

\* a restricted_consent_for that gives one reason for every failure
RestrictedOneReason(cup, u, p, t) ==
    IF ValidConsents(cup, u, p, t) = {}
    THEN {[ok |-> FALSE, consent |-> 0, added |-> FALSE, error |-> "No consent registered"]}
    ELSE {[ok |-> TRUE, consent |-> c, added |-> FALSE, error |-> ""] :
             c \in ValidConsents(cup, u, p, t)}

\* the results restricted_consent_for can give (query.first() has no ORDER BY)
restricted_consent_for(cup, u, p, t) ==
    IF LinkedConsents(cup, u, p) = {}
    THEN {[ok |-> FALSE, consent |-> 0, added |-> FALSE, error |-> "No consent registered"]}
    ELSE IF BegunConsents(cup, u, p, t) = {}
    THEN {[ok |-> FALSE, consent |-> 0, added |-> FALSE, error |-> "is not valid yet"]}
    ELSE IF ValidConsents(cup, u, p, t) = {}
    THEN {[ok |-> FALSE, consent |-> 0, added |-> FALSE, error |-> "is no longer valid"]}
    ELSE {[ok |-> TRUE, consent |-> c, added |-> FALSE, error |-> ""] :
             c \in ValidConsents(cup, u, p, t)}

\* the open consents of the user that are valid at t
OpenConsents(u, t) ==
    {c \in ConsentIds : /\ <<c, u>> \in consents_users
                        /\ consents[c].is_open
                        /\ consents[c].begins_at <= t
                        /\ consents[c].expires_at > t}

\* a consent_for that would look for an open consent first
ConsentForOpenFirst(cup, u, p, t) ==
    IF OpenConsents(u, t) # {}
    THEN {[ok |-> TRUE, consent |-> c, added |-> TRUE, error |-> ""] :
             c \in OpenConsents(u, t)}
    ELSE restricted_consent_for(cup, u, p, t)

\* User.consent_for: the results it can give; added tells that a scope link
\* (consent, p) was appended in the session
consent_for(cup, u, p, t) ==
    LET restricted == restricted_consent_for(cup, u, p, t)
    IN  IF \E x \in restricted : x.ok
        THEN restricted
        ELSE IF OpenConsents(u, t) # {}
        THEN {[ok |-> TRUE, consent |-> c, added |-> TRUE, error |-> ""] :
                 c \in OpenConsents(u, t)}
        ELSE restricted

\* a consent_for that would not append the usage point to the open consent
SessionScopeUnchanged(x, p) == consents_usage_points

\* consent_for: the consents_usage_points table as the session sees it afterwards
SessionScope(x, p) ==
    IF x.ok /\ x.added
    THEN consents_usage_points \cup {<<x.consent, p>>}
    ELSE consents_usage_points

\* UsagePoint.find_or_create, as the session sees usage_points after consent_for
find_or_create(x, p) ==
    IF x.ok /\ x.added THEN usage_points \cup {p} ELSE usage_points

\* ------------------------------------------------------------ ledger rows
\* WebservicesCall(webservice=, usage_point_id=, user=, consent=); called_at
\* has the column default until __enter__ sets it
WebservicesCall(ws, p, u, c) ==
    [webservice |-> ws, usage_point_id |-> p, user_id |-> u, consent_id |-> c,
     consent_begins_at |-> consents[c].begins_at,
     consent_expires_at |-> consents[c].expires_at,
     called_at |-> import_time, status |-> Null, error |-> Null]

\* a store without the upper bound of the check on called_at
CallIntegrityNoUpperBound(row, cup, ups) ==
    /\ row.user_id \in users
    /\ row.usage_point_id \in ups
    /\ row.consent_id \in ConsentIds
    /\ consents[row.consent_id].begins_at = row.consent_begins_at
    /\ consents[row.consent_id].expires_at = row.consent_expires_at
    /\ row.consent_begins_at <= row.called_at
    /\ <<row.consent_id, row.user_id>> \in consents_users
    /\ <<row.consent_id, row.usage_point_id>> \in cup

\* constraints of the store on a webservices_calls row
CallIntegrity(row, cup, ups) ==
    /\ row.user_id \in users
    /\ row.usage_point_id \in ups
    /\ row.consent_id \in ConsentIds
    /\ consents[row.consent_id].begins_at = row.consent_begins_at
    /\ consents[row.consent_id].expires_at = row.consent_expires_at
    /\ row.consent_begins_at <= row.called_at
    /\ row.called_at < row.consent_expires_at
    /\ <<row.consent_id, row.user_id>> \in consents_users
    /\ <<row.consent_id, row.usage_point_id>> \in cup

\* CheckedWebserviceCall.__enter__: the row that is added to the session
EnterRow(call, t) == [call EXCEPT !.called_at = t]

\* a wrapper that would run the enclosed statement whatever the commit says
EnterNeverRaises(commit_ok) == FALSE

\* CheckedWebserviceCall.__enter__: the commit's IntegrityError leaves
\* __enter__, so that the enclosed statement is not run
EnterRaises(commit_ok) == ~commit_ok

\* a wrapper that would fill the row on a normal return only
ExitRowOnReturnOnly(row, ex) ==
    IF ex.type = "None" THEN [row EXCEPT !.status = "OK"] ELSE row

\* CheckedWebserviceCall.__exit__: the row that is committed
ExitRow(row, ex) ==
    IF ex.type = "None"
    THEN [row EXCEPT !.status = "OK"]
    ELSE [row EXCEPT !.status = "FAILED", !.error = Str(ex)]

\* a wrapper whose __exit__ would return True
ExitSwallows(ex) == NoException

\* CheckedWebserviceCall.__exit__ returns False: the exception goes on
ExitRaises(ex) == ex

\* ------------------------------------------------------ upstream orders
\* Subscribe.handle_submit: the call types a series needs, in calling order
RequiredTypes(series) ==
    IF series = RawSeries
    THEN <<"CONSUMPTION_CDC_ENABLE", "CONSUMPTION_CDC_RAW">>
    ELSE <<"CONSUMPTION_IDX">>

SubKey(u, p, s) == [user_id |-> u, usage_point_id |-> p, series_name |-> s]

\* Subscription(user=, usage_point=, series_name=, consent=)
Subscription(u, p, s, c) ==
    [user_id |-> u, usage_point_id |-> p, series_name |-> s, consent_id |-> c,
     notified_at |-> NoDate, status |-> Null]

KeyOf(sub) == SubKey(sub.user_id, sub.usage_point_id, sub.series_name)

\* the orders linked to a subscription
LinkedOrders(key) == {l[2] : l \in {x \in subscriptions_calls : x[1] = key}}

\* the subscriptions linked to an order
LinkedTo(o) == {l[1] : l \in {x \in subscriptions_calls : x[2] = o}}

\* the usage point an order was placed for
OrderUsagePoint(o) == webservices_calls[orders[o].webservices_call_id].usage_point_id

\* a query that would find no order
FindsNothing(p, ty, call_date) == {}

\* WebservicesCallsSubscriptions.find_existing: the rows of the query
\* (first() has no ORDER BY)
find_existing(p, ty, call_date) ==
    {o \in DOMAIN orders :
        /\ \E l \in subscriptions_calls : l[2] = o
        /\ OrderUsagePoint(o) = p
        /\ orders[o].call_type = ty
        /\ orders[o].expires_at > call_date}

\* the orders in the order of their ids
RECURSIVE Sorted(_)
Sorted(set) ==
    IF set = {} THEN <<>>
    ELSE LET least == CHOOSE x \in set : \A y \in set : x <= y
         IN  <<least>> \o Sorted(set \ {least})

\* a loop that would remove the call types of the orders that have expired
RemoveExpired(types, calls, t) ==
    types \ {orders[calls[i]].call_type :
                i \in {k \in DOMAIN calls : orders[calls[k]].expires_at <= t}}

\* Subscription.expired_calls: the loop over self.webservices_calls
RECURSIVE RemoveValid(_, _, _)
RemoveValid(types, calls, t) ==
    IF calls = <<>> \/ types = {}
    THEN types
    ELSE LET call == orders[Head(calls)]
         IN  RemoveValid(IF call.call_type \in types /\ call.expires_at > t
                         THEN types \ {call.call_type}
                         ELSE types,
                         Tail(calls), t)

\* a method that would take a linked order for valid whatever its expiry
NeverOrdered(key, t) ==
    [raised |-> FALSE,
     calls |-> {RequiredTypes(key.series_name)[n] :
                   n \in DOMAIN RequiredTypes(key.series_name)}
               \ {orders[o].call_type : o \in LinkedOrders(key)}]

\* Subscription.expired_calls(now): the set it returns, or that it raises
\* ValueError
expired_calls(key, t) ==
    IF key.series_name = RawSeries
    THEN [raised |-> FALSE,
          calls |-> RemoveValid({"CONSUMPTION_CDC_ENABLE", "CONSUMPTION_CDC_RAW"},
                                Sorted(LinkedOrders(key)), t)]
    ELSE IF key.series_name \in {IndexSeries, MaxSeries}
    THEN [raised |-> FALSE,
          calls |-> RemoveValid({"CONSUMPTION_IDX"}, Sorted(LinkedOrders(key)), t)]
    ELSE [raised |-> TRUE, calls |-> {}]

\* get_or_call_sge_subscription: expires_at of a new order
\* an expiry that would follow the consent alone
OrderExpiresWithConsent(c, t) == consents[c].expires_at

OrderExpiresAt(c, t) == Min(consents[c].expires_at, t + Days365)

\* WebservicesCallsSubscriptions(webservices_call=, call_type=, expires_at=)
WebservicesCallsSubscriptions(row_id, ty, exp) ==
    [webservices_call_id |-> row_id, call_type |-> ty, expires_at |-> exp]

\* constraint of the store on a webservices_calls_subscriptions row
OrderIntegrity(order) ==
    /\ order.webservices_call_id \in DOMAIN webservices_calls
    /\ order.expires_at <= webservices_calls[order.webservices_call_id].consent_expires_at

\* WebservicesCallsSubscriptions.query_unused: the orders no subscription
\* is linked to
query_unused == {o \in DOMAIN orders : ~ \E l \in subscriptions_calls : l[2] = o}

\* constraints of the store on a subscriptions row
SubscriptionIntegrity(sub, cup) ==
    /\ sub.user_id \in users
    /\ sub.consent_id \in ConsentIds
    /\ <<sub.consent_id, sub.user_id>> \in consents_users
    /\ <<sub.consent_id, sub.usage_point_id>> \in cup
    /\ sub.notified_at # NoDate =>
          /\ consents[sub.consent_id].begins_at <= sub.notified_at
          /\ sub.notified_at < consents[sub.consent_id].expires_at

\* a test that takes the series path for the whole series name and has no
\* case for an identifier without a series path
EqualsSeries(series, measurement) == series = measurement

\* Unsubscribe.handle_submit: series_name.startswith(measurement)
StartsWith(series, measurement) ==
    /\ Len(measurement) <= Len(series)
    /\ SubSeq(series, 1, Len(measurement)) = measurement

\* ------------------------------------------------------ request handlers
\* every SgeError is surfaced, SGT570 included
TranslateSurfacesAll(kind, ex) ==
    IF ex.type \in {"PermissionError", "IntegrityError"}
    THEN [result |-> "not-authorized", code |-> ""]
    ELSE IF ex.type = "SgeError"
    THEN [result |-> "upstream-error", code |-> ex.code]
    ELSE IF ex.type = "ValueError"
    THEN [result |-> "bad-request", code |-> ""]
    ELSE [result |-> "error", code |-> ""]

\* the except clauses of GetHistory.handle_submit and Subscribe.handle_submit
Translate(kind, ex) ==
    IF ex.type \in {"PermissionError", "IntegrityError"}
    THEN [result |-> "not-authorized", code |-> ""]
    ELSE IF ex.type = "SgeError"
    THEN IF kind = "subscribe" /\ ex.code = "SGT570"
         THEN [result |-> "Success", code |-> ""]
         ELSE [result |-> "upstream-error", code |-> ex.code]
    ELSE IF ex.type = "ValueError"
    THEN [result |-> "bad-request", code |-> ""]
    ELSE [result |-> "error", code |-> ""]

Success == [result |-> "Success", code |-> ""]

IdleH == [pc |-> "idle", kind |-> "none", user |-> "", up |-> "", series |-> <<>>,
          covered |-> FALSE, fresh |-> FALSE, consent |-> 0, row |-> 0,
          types |-> <<>>, exp |-> 0, dso |-> 0]

IdleR == [pc |-> "idle", now |-> 0, todo |-> {}, sub |-> SubKey("", "", <<>>),
          consent |-> 0, types |-> {}, ty |-> "", row |-> 0, exp |-> 0,
          failed |-> {}]

\* what get_or_call_sge_subscription found in the store when it was called
OrdersAt(p, ty, t) ==
    {o \in DOMAIN orders :
        OrderUsagePoint(o) = p /\ orders[o].call_type = ty /\ orders[o].expires_at > t}

LinkedOrdersAt(p, ty, t) ==
    {o \in OrdersAt(p, ty, t) : \E l \in subscriptions_calls : l[2] = o}

Called(p, ty, returned, invoked) ==
    [up |-> p, ty |-> ty, valid |-> OrdersAt(p, ty, now) # {},
     linked |-> LinkedOrdersAt(p, ty, now) # {},
     returned |-> returned, invoked |-> invoked]

NoResp == [kind |-> "none", covered |-> FALSE, fresh |-> FALSE, result |-> "",
           code |-> "", dso |-> 0]

NoResolved == [by |-> "none", user |-> "", up |-> "", t |-> 0, at |-> 0, ok |-> FALSE,
               consent |-> 0, added |-> FALSE, linked |-> FALSE, created |-> FALSE,
               links_added |-> 0, again_same |-> FALSE, error |-> ""]

NoGoc == [up |-> "", ty |-> "", valid |-> FALSE, linked |-> FALSE,
          returned |-> 0, invoked |-> FALSE]

NoScope == [row |-> 0, ex |-> NoException, raised |-> NoException]

\* a handler that never finds the subscription in the store
RequestAlwaysFresh(kind, u, p, s) ==
    [IdleH EXCEPT !.kind = kind, !.user = u, !.up = p, !.series = s,
                  !.covered = /\ u \in users
                              /\ \E x \in consent_for(consents_usage_points, u, p, now) : x.ok,
                  !.fresh = TRUE]

\* a submission as the handler receives it; covered tells whether a consent
\* covers (user, usage point) at the instant of the request
Request(kind, u, p, s) ==
    [IdleH EXCEPT !.kind = kind, !.user = u, !.up = p, !.series = s,
                  !.covered = /\ u \in users
                              /\ \E x \in consent_for(consents_usage_points, u, p, now) : x.ok,
                  !.fresh = \A sub \in subscriptions : KeyOf(sub) # SubKey(u, p, s)]

\* ------------------------------------------------------------ publisher
\* what a stream parser yields: a record, or an exception where the
\* structure of the stream is not the expected one
\* Record(name, time, unit, value) with its metadata: the name is
\* urn:dev:prm:<up>_<series>, the metadata is the one of the measurement
\* the series belongs to
Rec(p, series, t) ==
    [kind |-> "record", up |-> p, series |-> series, t |-> t,
     meta |-> <<p, SubSeq(series, 1, 4)>>, file |-> ""]
Bad == [kind |-> "error", up |-> "", series |-> <<>>, t |-> 0, meta |-> <<>>, file |-> ""]

\* the files the DSO may drop in the inbox: path -> what the file is.
\* key is the configured key the file decrypts with (0: none of them),
\* data is what the parser yields over the data files, in order
StreamFile(basename, key, unzips, data) ==
    [basename |-> basename, isdir |-> FALSE, companion |-> FALSE, handler |-> TRUE,
     key |-> key, unzips |-> unzips, data |-> data]
OtherFile(basename, isdir, companion) ==
    [basename |-> basename, isdir |-> isdir, companion |-> companion, handler |-> FALSE,
     key |-> 0, unzips |-> FALSE, data |-> <<>>]

Catalogue ==
    LET hph == IndexSeries \o <<"distributor", "hph">>
    IN
    [f \in {"ERDF_R151_1.zip", "old/ERDF_R151_1.zip", "ERDF_R151_2.zip",
            "ERDF_R151_3.zip", "ERDF_R151_4.zip", "ERDF_R151_1_svc.xml", "README",
            "old"} |->
        CASE f = "ERDF_R151_1.zip" ->
                 \* two readings of p1 (a class index, then the total) and one of p2
                 StreamFile("ERDF_R151_1.zip", 1, TRUE,
                            <<Rec("p1", hph, 1), Rec("p1", IndexSeries, 1),
                              Rec("p1", hph, 2), Rec("p2", IndexSeries, 1)>>)
          [] f = "old/ERDF_R151_1.zip" ->
                 StreamFile("ERDF_R151_1.zip", 2, TRUE,
                            <<Rec("p1", IndexSeries, 1), Rec("p1", RawSeries, 1)>>)
          [] f = "ERDF_R151_2.zip" ->
                 StreamFile("ERDF_R151_2.zip", 1, TRUE, <<Rec("p1", IndexSeries, 1), Bad>>)
          [] f = "ERDF_R151_3.zip" ->
                 StreamFile("ERDF_R151_3.zip", 0, TRUE, <<Rec("p1", IndexSeries, 1)>>)
          [] f = "ERDF_R151_4.zip" ->
                 StreamFile("ERDF_R151_4.zip", 1, FALSE, <<Rec("p1", IndexSeries, 1)>>)
          [] f = "ERDF_R151_1_svc.xml" -> OtherFile("ERDF_R151_1_svc.xml", FALSE, TRUE)
          [] f = "README" -> OtherFile("README", FALSE, FALSE)
          [] f = "old" -> OtherFile("old", TRUE, FALSE)]

\* what the parser yields before it raises, and whether it raises
RECURSIVE Yielded(_)
Yielded(data) ==
    IF data = <<>> \/ Head(data).kind = "error"
    THEN <<>>
    ELSE <<Head(data)>> \o Yielded(Tail(data))

Raises(data) == \E k \in DOMAIN data : data[k].kind = "error"

\* StreamsFiles.file_records, the loop over the keys: StreamFiles.__enter__
\* makes a temporary directory and raises CorruptedFile when openssl or
\* unzip fails, in which case __exit__ is not run; otherwise the records
\* are yielded inside the with statement and __exit__ removes the directory
\* a loop that would give up after the first key
TryFirstKey(file, keys) ==
    IF keys # <<>> /\ Head(keys) = file.key /\ file.unzips
    THEN [yielded |-> Yielded(file.data), raised |-> Raises(file.data),
          error |-> IF Raises(file.data) THEN "Exception" ELSE "", left_behind |-> 0]
    ELSE [yielded |-> <<>>, raised |-> TRUE, error |-> "CorruptedFile",
          left_behind |-> Min(Len(keys), 1)]

RECURSIVE TryKeys(_, _)
TryKeys(file, keys) ==
    IF keys = <<>>
    THEN [yielded |-> <<>>, raised |-> TRUE, error |-> "CorruptedFile", left_behind |-> 0]
    ELSE IF Head(keys) = file.key /\ file.unzips
    THEN [yielded |-> Yielded(file.data), raised |-> Raises(file.data),
          error |-> IF Raises(file.data) THEN "Exception" ELSE "", left_behind |-> 0]
    ELSE LET rest == TryKeys(file, Tail(keys))
         IN  [rest EXCEPT !.left_behind = @ + 1]

\* StreamsFiles.file_records consumed by the publish loop: the records that
\* were yielded, whether an exception left the generator, and the temporary
\* directories that are still on disk afterwards
file_records(file) ==
    IF file.isdir \/ file.companion \/ ~file.handler
    THEN [yielded |-> <<>>, raised |-> FALSE, error |-> "", left_behind |-> 0]
    ELSE TryKeys(file, Keys)

\* no file was read
NoRead == [pc |-> "none", file |-> OtherFile("", FALSE, FALSE), keys |-> <<>>,
           out |-> [yielded |-> <<>>, raised |-> FALSE, error |-> "", left_behind |-> 0]]

\* ---------------------------------------------------------- sge.Subscribe
\* a python dict is the function from its keys to its values; None is Null
\* sub_params(updates): sorted_params.update(updates)
sub_params(overrides) ==
    overrides @@ [dateDebut |-> NoDate, dateFin |-> NoDate,
                declarationAccordClient |-> [accord |-> "true"],
                mesuresTypeCode |-> Null, soutirage |-> "true", injection |-> "false",
                mesuresPas |-> Null, mesuresCorrigees |-> "false",
                transmissionRecurrente |-> "true", periodiciteTransmission |-> "P1D"]

\* Subscribe.PARAMS when the class is defined: one dict per SubscriptionType,
\* each with a declarationAccordClient dict of its own
Subscribe_PARAMS ==
    [call_type \in {"CONSUMPTION_IDX", "CONSUMPTION_CDC_RAW", "CONSUMPTION_CDC_CORRECTED",
                    "CONSUMPTION_CDC_ENABLE", "PRODUCTION_IDX", "PRODUCTION_CDC_RAW",
                    "PRODUCTION_CDC_CORRECTED", "PRODUCTION_CDC_ENABLE"} |->
        CASE call_type = "CONSUMPTION_IDX" ->
                 sub_params([mesuresTypeCode |-> "IDX", soutirage |-> "true",
                             injection |-> "false"])
          [] call_type \in {"CONSUMPTION_CDC_RAW", "CONSUMPTION_CDC_CORRECTED"} ->
                 sub_params([mesuresTypeCode |-> "CDC", soutirage |-> "true",
                             injection |-> "false"])
          [] call_type = "CONSUMPTION_CDC_ENABLE" ->
                 sub_params([mesuresTypeCode |-> "CDC", soutirage |-> "true",
                             injection |-> "false", transmissionRecurrente |-> "false"])
          [] call_type = "PRODUCTION_IDX" ->
                 sub_params([mesuresTypeCode |-> "IDX", soutirage |-> "false",
                             injection |-> "true"])
          [] call_type = "PRODUCTION_CDC_RAW" ->
                 sub_params([mesuresTypeCode |-> "CDC", soutirage |-> "false",
                             injection |-> "true"])
          [] call_type = "PRODUCTION_CDC_CORRECTED" ->
                 sub_params([mesuresTypeCode |-> "CDC", soutirage |-> "false",
                             injection |-> "true", mesuresCorrigees |-> "true"])
          [] call_type = "PRODUCTION_CDC_ENABLE" ->
                 sub_params([mesuresTypeCode |-> "CDC", soutirage |-> "false",
                             injection |-> "true", transmissionRecurrente |-> "false"])]

\* no request was sent
NoDemande == {}

\* os.rename(file_path, <dir>/<today>/<basename>): the file takes the place
\* of a file of the same basename
Renamed(dir, f) ==
    {g \in dir : Catalogue[g].basename # Catalogue[f].basename} \cup {f}

\* a selection with the empty prefix: every name starts with it
AllRecords(records, key) == records

\* the records whose name starts with urn:dev:prm:<usage point>_<series
\* name>, in the order they were added to records_by_name
RECURSIVE Matching(_, _)
Matching(records, key) ==
    IF records = <<>>
    THEN <<>>
    ELSE IF /\ Head(records).up = key.usage_point_id
            /\ StartsWith(Head(records).series, key.series_name)
         THEN <<Head(records)>> \o Matching(Tail(records), key)
         ELSE Matching(Tail(records), key)

\* chunks(lst, n)
RECURSIVE chunks(_, _)
chunks(lst, n) ==
    IF lst = <<>>
    THEN <<>>
    ELSE IF Len(lst) <= n
    THEN <<lst>>
    ELSE <<SubSeq(lst, 1, n)>> \o chunks(SubSeq(lst, n + 1, Len(lst)), n)

\* record.name
NameOf(rec) == <<rec.up, rec.series>>

\* RecordsByName.add: self.records[name][metadata], the list of the records
\* added under that name and metadata, in the order they were added
Added(records, name, meta) ==
    LET Here(rec) == NameOf(rec) = name /\ rec.meta = meta
    IN  SelectSeq(records, Here)

\* RecordsByName.get, first loop: the (name, metadata) pairs in the order
\* the two dicts are iterated, for the names that start with the prefix
Pairs(records, key) ==
    LET selected == Matching(records, key)
        names == Distinct([i \in DOMAIN selected |-> NameOf(selected[i])])
        MetasOf(name) ==
            LET Named(rec) == NameOf(rec) = name
            IN  Distinct([i \in DOMAIN SelectSeq(records, Named) |->
                             SelectSeq(records, Named)[i].meta])
    IN  Concat([n \in DOMAIN names |->
                  [m \in DOMAIN MetasOf(names[n]) |->
                      [name |-> names[n], meta |-> MetasOf(names[n])[m]]]])

\* RecordsByName.get: all_records_by_meta, then the chunks of each list
get(records, key, chunk_size) ==
    LET pairs == Pairs(records, key)
        metas == Distinct([i \in DOMAIN pairs |-> pairs[i].meta])
        Of(meta) ==
            LET With(pair) == pair.meta = meta
                mine == SelectSeq(pairs, With)
            IN  Concat([i \in DOMAIN mine |-> Added(records, mine[i].name, meta)])
    IN  Concat([m \in DOMAIN metas |-> chunks(Of(metas[m]), chunk_size)])

\* a scope that would leave the status as it is when the send raised
ExitStatusOnSuccessOnly(raised) == IF raised THEN Null ELSE "OK"

\* SubscriptionNotificationContext.__exit__: the status that is committed
ExitStatus(raised) == IF raised THEN "FAILED" ELSE "OK"

\* SubscriptionNotificationContext.__enter__: the row that is committed
EnterNotified(sub, date) == [sub EXCEPT !.status = Null, !.notified_at = date]

IdleP == [pc |-> "idle", run |-> 0, import_time |-> 0, ended |-> "", discovered |-> {},
          files |-> {}, files_group |-> <<>>, records |-> <<>>, todo |-> {},
          sub |-> SubKey("", "", <<>>), chunks |-> <<>>]

NoSent == [sub |-> SubKey("", "", <<>>), at |-> NoDate, entered |-> FALSE,
           left |-> FALSE, raised |-> FALSE]

\* the answer of the handler to a submission
Reply(req, answer) ==
    [kind |-> req.kind, covered |-> req.covered, fresh |-> req.fresh,
     result |-> answer.result, code |-> answer.code, dso |-> req.dso]

\* what consent_for was asked (t), when (at), and what it gave
Resolution(by, u, p, t, x) ==
    [by |-> by, user |-> u, up |-> p, t |-> t, at |-> now, ok |-> x.ok,
     consent |-> x.consent, added |-> x.added,
     linked |-> /\ x.ok
                /\ <<x.consent, u>> \in consents_users
                /\ <<x.consent, p>> \in SessionScope(x, p),
     created |-> p \in find_or_create(x, p) \ usage_points,
     links_added |-> Cardinality(SessionScope(x, p) \ consents_usage_points),
     again_same |-> consent_for(SessionScope(x, p), u, p, t) =
                       {[ok |-> TRUE, consent |-> x.consent, added |-> FALSE, error |-> ""]},
     error |-> x.error]

\* a DSO operation that starts
DsoStart(op, p, ty, row_id) ==
    Append(dso_log, [op |-> op, up |-> p, ty |-> ty, row |-> row_id])

\* CheckedWebserviceCall.__exit__: the scope that was left
Left(row_id, ex) == [row |-> row_id, ex |-> ex, raised |-> ExitRaises(ex)]

Init ==
    /\ now = 0
    /\ import_time = 0
    /\ users = Users
    /\ usage_points = {"p1"}
    /\ segment_known = {"p1"}
    /\ level_known = {"p1"}
    /\ consents = (1 :> [is_open |-> FALSE, begins_at |-> 0, expires_at |-> 2])
               @@ (2 :> [is_open |-> TRUE, begins_at |-> 0, expires_at |-> 3])
    /\ consents_users = {<<1, "alice">>, <<2, "bob">>}
    /\ consents_usage_points = {<<1, "p1">>}
    /\ webservices_calls = <<>>
    /\ subscriptions = {}
    /\ orders = <<>>
    /\ subscriptions_calls = {}
    /\ h = IdleH
    /\ resp = NoResp
    /\ r = IdleR
    /\ dso_log = <<>>
    /\ resolved = NoResolved
    /\ goc = NoGoc
    /\ scope = NoScope
    /\ updates = 0
    /\ inbox = {}
    /\ archive = {}
    /\ errors = {}
    /\ temp_dirs = 0
    /\ arrived = {}
    /\ pub = IdleP
    /\ delivered = {}
    /\ sent = NoSent
    /\ conv = IdleC
    /\ parser = NoFile
    /\ reader = NoRead
    /\ PARAMS = Subscribe_PARAMS
    /\ demande = NoDemande
    /\ expired = NoExpired

\* ------------------------------------------------------------------ clock
Tick ==
    /\ now < MaxTime
    /\ now' = now + 1
    /\ resp' = NoResp /\ resolved' = NoResolved /\ goc' = NoGoc /\ scope' = NoScope
    /\ UNCHANGED <<import_time, store, h, r, dso_log, updates>>
    /\ UNCHANGED <<disk, publisher, blocks>>

\* an operator of the store moves the end of a consent; the store carries
\* the new interval to the rows that reference the consent and rejects the
\* update when one of them would break a constraint
UpdateConsent(c, e) ==
    /\ updates < MaxUpdates
    /\ consents[c].begins_at < e
    /\ e # consents[c].expires_at
    /\ \A i \in DOMAIN webservices_calls :
          webservices_calls[i].consent_id = c => webservices_calls[i].called_at < e
    /\ \A o \in DOMAIN orders :
          webservices_calls[orders[o].webservices_call_id].consent_id = c =>
              orders[o].expires_at <= e
    /\ \A sub \in subscriptions :
          (sub.consent_id = c /\ sub.notified_at # NoDate) => sub.notified_at < e
    /\ consents' = [consents EXCEPT ![c].expires_at = e]
    /\ webservices_calls' =
          [i \in DOMAIN webservices_calls |->
              IF webservices_calls[i].consent_id = c
              THEN [webservices_calls[i] EXCEPT !.consent_expires_at = e]
              ELSE webservices_calls[i]]
    /\ updates' = updates + 1
    /\ resp' = NoResp /\ resolved' = NoResolved /\ goc' = NoGoc /\ scope' = NoScope
    /\ UNCHANGED <<now, import_time, users, usage_points, segment_known, level_known,
                   consents_users, consents_usage_points, subscriptions, orders,
                   subscriptions_calls, h, r, dso_log>>
    /\ UNCHANGED <<disk, publisher, blocks>>

\* --------------------------------------------------------- guarded call
\* CheckedWebserviceCall.__enter__ committed: the row, and what consent_for
\* left in the session, are in the store
EnterCommit(commit_ok, row, cup, ups) ==
    IF commit_ok
    THEN /\ webservices_calls' = Append(webservices_calls, row)
         /\ consents_usage_points' = cup
         /\ usage_points' = ups
    ELSE UNCHANGED <<webservices_calls, consents_usage_points, usage_points>>

\* CheckedWebserviceCall.__exit__: the row is given its status and committed
ExitCommit(row_id, ex) ==
    webservices_calls' =
        [i \in DOMAIN webservices_calls |->
            IF i = row_id THEN ExitRow(webservices_calls[i], ex) ELSE webservices_calls[i]]

\* the answer of the handler leaves the proxy; the next submission is
\* dispatched after that
Deliver ==
    /\ resp # NoResp
    /\ resp' = NoResp /\ resolved' = NoResolved /\ goc' = NoGoc /\ scope' = NoScope
    /\ UNCHANGED <<now, import_time, store, h, r, dso_log, updates>>
    /\ UNCHANGED <<disk, publisher, blocks>>

\* ------------------------------------------------------------ GetHistory
\* GetHistory.handle_submit up to the DSO call
SubmitGetHistory(u, p) ==
    LET req == Request("get_history", u, p, RawSeries)
    IN
    /\ h.pc = "idle"
    /\ resp = NoResp
    /\ IF u \notin users
       THEN /\ resp' = Reply(req, Translate(req.kind, PermissionError("Unknown user")))
            /\ resolved' = NoResolved
            /\ UNCHANGED <<store, dso_log, h>>
       ELSE \E x \in consent_for(consents_usage_points, u, p, import_time) :
            LET row == EnterRow(WebservicesCall(HistoryService, p, u, x.consent), now)
                cup == SessionScope(x, p)
                ups == find_or_create(x, p)
                commit_ok == x.ok /\ CallIntegrity(row, cup, ups)
            IN
            /\ resolved' = Resolution("handler", u, p, import_time, x)
            /\ IF ~x.ok
               THEN /\ resp' = Reply(req, Translate(req.kind, PermissionError(x.error)))
                    /\ UNCHANGED <<store, dso_log, h>>
               ELSE /\ Len(webservices_calls) < MaxCalls
                    /\ Len(dso_log) < MaxCalls
                    /\ IF EnterRaises(commit_ok)
                       THEN /\ resp' = Reply(req, Translate(req.kind, IntegrityError))
                            /\ UNCHANGED <<store, dso_log, h>>
                       ELSE /\ EnterCommit(commit_ok, row, cup, ups)
                            /\ h' = [req EXCEPT !.pc = "history", !.consent = x.consent,
                                                !.row = Len(webservices_calls) + 1,
                                                !.dso = 1]
                            /\ dso_log' = DsoStart("history", p, "", Len(webservices_calls) + 1)
                            /\ resp' = NoResp
                            /\ UNCHANGED <<users, segment_known, level_known, consents,
                                           consents_users, subscriptions, orders,
                                           subscriptions_calls>>
    /\ goc' = NoGoc /\ scope' = NoScope
    /\ UNCHANGED <<now, import_time, r, updates>>
    /\ UNCHANGED <<disk, publisher, blocks>>

\* GetHistory.handle_submit from the answer of the DSO on
HistoryDone(ex) ==
    /\ h.pc = "history"
    /\ ExitCommit(h.row, ex)
    /\ scope' = Left(h.row, ex)
    /\ resp' = Reply(h, IF ExitRaises(ex).type = "None" THEN Success
                        ELSE Translate(h.kind, ExitRaises(ex)))
    /\ h' = IdleH
    /\ resolved' = NoResolved /\ goc' = NoGoc
    /\ UNCHANGED <<now, import_time, users, usage_points, segment_known, level_known,
                   consents, consents_users, consents_usage_points, subscriptions, orders,
                   subscriptions_calls, r, dso_log, updates>>
    /\ UNCHANGED <<disk, publisher, blocks>>

\* ------------------------------------------------------------- Subscribe
\* Subscribe.handle_submit up to the first DSO call or commit
SubmitSubscribe(u, p, s) ==
    LET req == Request("subscribe", u, p, s)
    IN
    /\ h.pc = "idle"
    /\ resp = NoResp
    /\ IF s \notin SupportedSeries
       THEN /\ resp' = Reply(req, Translate(req.kind, ValueError))
            /\ resolved' = NoResolved
            /\ UNCHANGED <<store, dso_log, h>>
       ELSE IF u \notin users
       THEN /\ resp' = Reply(req, Translate(req.kind, PermissionError("Unknown user")))
            /\ resolved' = NoResolved
            /\ UNCHANGED <<store, dso_log, h>>
       ELSE IF ~req.fresh
       THEN /\ resp' = Reply(req, Success)
            /\ resolved' = NoResolved
            /\ UNCHANGED <<store, dso_log, h>>
       ELSE \E x \in consent_for(consents_usage_points, u, p, import_time) :
            LET cup == SessionScope(x, p)
                ups == find_or_create(x, p)
                row == EnterRow(WebservicesCall(TechnicalService, p, u, x.consent), now)
                commit_ok == x.ok /\ CallIntegrity(row, cup, ups)
                sub == Subscription(u, p, s, x.consent)
            IN
            /\ resolved' = Resolution("handler", u, p, import_time, x)
            /\ IF ~x.ok
               THEN /\ resp' = Reply(req, Translate(req.kind, PermissionError(x.error)))
                    /\ UNCHANGED <<store, dso_log, h>>
               ELSE IF p \notin segment_known \/ p \notin level_known
               THEN /\ Len(webservices_calls) < MaxCalls
                    /\ Len(dso_log) < MaxCalls
                    /\ Cardinality(subscriptions) < MaxSubs
                    /\ IF EnterRaises(commit_ok)
                       THEN /\ resp' = Reply(req, Translate(req.kind, IntegrityError))
                            /\ UNCHANGED <<store, dso_log, h>>
                       ELSE /\ EnterCommit(commit_ok, row, cup, ups)
                            /\ h' = [req EXCEPT !.pc = "technical", !.consent = x.consent,
                                                !.row = Len(webservices_calls) + 1,
                                                !.dso = 1]
                            /\ dso_log' = DsoStart("technical", p, "",
                                                   Len(webservices_calls) + 1)
                            /\ resp' = NoResp
                            /\ UNCHANGED <<users, segment_known, level_known, consents,
                                           consents_users, subscriptions, orders,
                                           subscriptions_calls>>
               ELSE IF ~SubscriptionIntegrity(sub, cup)
               THEN /\ resp' = Reply(req, Translate(req.kind, IntegrityError))
                    /\ UNCHANGED <<store, dso_log, h>>
               ELSE /\ Cardinality(subscriptions) < MaxSubs
                    /\ subscriptions' = subscriptions \cup {sub}
                    /\ consents_usage_points' = cup
                    /\ usage_points' = ups
                    /\ h' = [req EXCEPT !.pc = "orders", !.consent = x.consent,
                                        !.types = RequiredTypes(s)]
                    /\ resp' = NoResp
                    /\ UNCHANGED <<users, segment_known, level_known, consents,
                                   consents_users, webservices_calls, orders,
                                   subscriptions_calls, dso_log>>
    /\ goc' = NoGoc /\ scope' = NoScope
    /\ UNCHANGED <<now, import_time, r, updates>>
    /\ UNCHANGED <<disk, publisher, blocks>>

\* Subscribe.handle_submit from the answer of the DSO to the technical data
\* request up to the commit of the subscription
TechnicalDone(ex) ==
    LET sub == Subscription(h.user, h.up, h.series, h.consent)
    IN
    /\ h.pc = "technical"
    /\ ExitCommit(h.row, ex)
    /\ scope' = Left(h.row, ex)
    /\ IF ExitRaises(ex).type # "None"
       THEN /\ resp' = Reply(h, Translate(h.kind, ExitRaises(ex)))
            /\ h' = IdleH
            /\ UNCHANGED <<segment_known, level_known, subscriptions>>
       ELSE IF ~SubscriptionIntegrity(sub, consents_usage_points)
       THEN /\ resp' = Reply(h, Translate(h.kind, IntegrityError))
            /\ h' = IdleH
            /\ UNCHANGED <<segment_known, level_known, subscriptions>>
       ELSE /\ segment_known' = segment_known \cup {h.up}
            /\ \E has_level \in BOOLEAN :
                  level_known' = IF has_level THEN level_known \cup {h.up} ELSE level_known
            /\ subscriptions' = subscriptions \cup {sub}
            /\ h' = [h EXCEPT !.pc = "orders", !.types = RequiredTypes(h.series)]
            /\ resp' = NoResp
    /\ resolved' = NoResolved /\ goc' = NoGoc
    /\ UNCHANGED <<now, import_time, users, usage_points, consents, consents_users,
                   consents_usage_points, orders, subscriptions_calls, r, dso_log,
                   updates>>
    /\ UNCHANGED <<disk, publisher, blocks>>

\* Subscribe.handle_submit: the next get_or_call_sge_subscription, up to the
\* DSO call or to the commit that links an existing order
NextOrder ==
    LET key == SubKey(h.user, h.up, h.series)
        ty == Head(h.types)
        found == find_existing(h.up, ty, import_time)
        row == EnterRow(WebservicesCall(SubscribeService, h.up, h.user, h.consent), now)
        commit_ok == CallIntegrity(row, consents_usage_points, usage_points)
    IN
    /\ h.pc = "orders"
    /\ IF h.types = <<>>
       THEN /\ resp' = Reply(h, Success)
            /\ h' = IdleH
            /\ goc' = NoGoc
            /\ UNCHANGED <<store, dso_log>>
       ELSE IF found # {}
       THEN /\ \E o \in found :
                  /\ subscriptions_calls' = subscriptions_calls \cup {<<key, o>>}
                  /\ goc' = Called(h.up, ty, o, FALSE)
            /\ h' = [h EXCEPT !.types = Tail(h.types)]
            /\ resp' = NoResp
            /\ UNCHANGED <<users, usage_points, segment_known, level_known, consents,
                           consents_users, consents_usage_points, webservices_calls,
                           subscriptions, orders, dso_log>>
       ELSE /\ Len(webservices_calls) < MaxCalls
            /\ Len(dso_log) < MaxCalls
            /\ IF EnterRaises(commit_ok)
               THEN /\ resp' = Reply(h, Translate(h.kind, IntegrityError))
                    /\ h' = IdleH
                    /\ goc' = Called(h.up, ty, 0, FALSE)
                    /\ UNCHANGED <<store, dso_log>>
               ELSE /\ EnterCommit(commit_ok, row, consents_usage_points, usage_points)
                    /\ h' = [h EXCEPT !.pc = "subscribe",
                                      !.row = Len(webservices_calls) + 1,
                                      !.exp = OrderExpiresAt(h.consent, now),
                                      !.dso = h.dso + 1]
                    /\ dso_log' = DsoStart("subscribe", h.up, ty, Len(webservices_calls) + 1)
                    /\ goc' = Called(h.up, ty, 0, TRUE)
                    /\ resp' = NoResp
                    /\ UNCHANGED <<users, segment_known, level_known, consents,
                                   consents_users, subscriptions, orders,
                                   subscriptions_calls>>
    /\ resolved' = NoResolved /\ scope' = NoScope
    /\ UNCHANGED <<now, import_time, r, updates>>
    /\ UNCHANGED <<disk, publisher, blocks>>

\* Subscribe.handle_submit from the answer of the DSO to the subscribe
\* request up to the commit that links the new order
SubscribeDone(ex) ==
    LET key == SubKey(h.user, h.up, h.series)
        order == WebservicesCallsSubscriptions(h.row, Head(h.types), h.exp)
    IN
    /\ h.pc = "subscribe"
    /\ ExitCommit(h.row, ex)
    /\ scope' = Left(h.row, ex)
    /\ IF ExitRaises(ex).type # "None"
       THEN /\ resp' = Reply(h, Translate(h.kind, ExitRaises(ex)))
            /\ h' = IdleH
            /\ UNCHANGED <<orders, subscriptions_calls>>
       ELSE IF ~OrderIntegrity(order)
       THEN /\ resp' = Reply(h, Translate(h.kind, IntegrityError))
            /\ h' = IdleH
            /\ UNCHANGED <<orders, subscriptions_calls>>
       ELSE /\ orders' = Append(orders, order)
            /\ subscriptions_calls' = subscriptions_calls \cup {<<key, Len(orders) + 1>>}
            /\ h' = [h EXCEPT !.pc = "orders", !.types = Tail(h.types)]
            /\ resp' = NoResp
    /\ resolved' = NoResolved /\ goc' = NoGoc
    /\ UNCHANGED <<now, import_time, users, usage_points, segment_known, level_known,
                   consents, consents_users, consents_usage_points, subscriptions, r,
                   dso_log, updates>>
    /\ UNCHANGED <<disk, publisher, blocks>>

\* ----------------------------------------------------------- Unsubscribe
\* Unsubscribe.handle_submit; measurement is <<>> for an identifier without
\* a series path
SubmitUnsubscribe(u, p, measurement) ==
    LET req == Request("unsubscribe", u, p, measurement)
        deleted == {sub \in subscriptions :
                       /\ sub.user_id = u
                       /\ sub.usage_point_id = p
                       /\ StartsWith(sub.series_name, measurement)}
    IN
    /\ h.pc = "idle"
    /\ resp = NoResp
    /\ IF u \notin users
       THEN /\ resp' = Reply(req, Translate(req.kind, PermissionError("Unknown user")))
            /\ UNCHANGED <<subscriptions, subscriptions_calls>>
       ELSE /\ subscriptions' = subscriptions \ deleted
            /\ subscriptions_calls' =
                  {l \in subscriptions_calls : l[1] \notin {KeyOf(sub) : sub \in deleted}}
            /\ resp' = Reply(req, Success)
    /\ resolved' = NoResolved /\ goc' = NoGoc /\ scope' = NoScope
    /\ UNCHANGED <<now, import_time, users, usage_points, segment_known, level_known,
                   consents, consents_users, consents_usage_points, webservices_calls,
                   orders, h, r, dso_log, updates>>
    /\ UNCHANGED <<disk, publisher, blocks>>

\* --------------------------------------------------------------- renewal
\* do_renew_subscriptions: now = now_local() and the query of the subscriptions
RenewStart ==
    /\ r.pc = "idle"
    /\ subscriptions # {}
    /\ r' = [IdleR EXCEPT !.pc = "loop", !.now = now,
                          !.todo = {KeyOf(sub) : sub \in subscriptions}]
    /\ resp' = NoResp /\ resolved' = NoResolved /\ goc' = NoGoc /\ scope' = NoScope
    /\ UNCHANGED <<now, import_time, store, h, dso_log, updates>>
    /\ UNCHANGED <<disk, publisher, blocks>>

\* do_renew_subscriptions: the head of the loop body, up to the commit of
\* sub.consent
RenewNext ==
    /\ r.pc = "loop"
    /\ IF r.todo = {}
       THEN /\ r' = IdleR
            /\ resolved' = NoResolved
            /\ UNCHANGED store
       ELSE \E key \in r.todo :
            IF key \notin {KeyOf(sub) : sub \in subscriptions}
            THEN \* the row was deleted meanwhile: the run ends on the error
                 /\ r' = IdleR
                 /\ resolved' = NoResolved
                 /\ UNCHANGED store
            ELSE IF expired_calls(key, r.now).raised
            THEN \* ValueError: the run ends on the error
                 /\ r' = IdleR
                 /\ resolved' = NoResolved
                 /\ UNCHANGED store
            ELSE IF expired_calls(key, r.now).calls = {}
            THEN /\ r' = [r EXCEPT !.todo = r.todo \ {key}]
                 /\ resolved' = NoResolved
                 /\ UNCHANGED store
            ELSE \E x \in consent_for(consents_usage_points, key.user_id,
                                      key.usage_point_id, r.now) :
                 LET cup == SessionScope(x, key.usage_point_id)
                     old == CHOOSE y \in subscriptions : KeyOf(y) = key
                     sub == [old EXCEPT !.consent_id = x.consent]
                 IN
                 /\ resolved' = Resolution("renewal", key.user_id, key.usage_point_id,
                                                r.now, x)
                 /\ IF ~x.ok
                    THEN /\ r' = [r EXCEPT !.todo = r.todo \ {key}]
                         /\ UNCHANGED store
                    ELSE IF ~SubscriptionIntegrity(sub, cup)
                    THEN /\ r' = IdleR
                         /\ UNCHANGED store
                    ELSE /\ subscriptions' =
                               {IF KeyOf(y) = key THEN sub ELSE y : y \in subscriptions}
                         /\ consents_usage_points' = cup
                         /\ r' = [r EXCEPT !.pc = "orders", !.todo = r.todo \ {key},
                                           !.sub = key, !.consent = x.consent,
                                           !.types = expired_calls(key, r.now).calls]
                         /\ UNCHANGED <<users, usage_points, segment_known, level_known,
                                        consents, consents_users, webservices_calls,
                                        orders, subscriptions_calls>>
    /\ resp' = NoResp /\ goc' = NoGoc /\ scope' = NoScope
    /\ UNCHANGED <<now, import_time, h, dso_log, updates>>
    /\ UNCHANGED <<disk, publisher, blocks>>

\* do_renew_subscriptions: the next get_or_call_sge_subscription of the inner
\* loop, up to the DSO call or to the commit that links an existing order;
\* the renewal script imported sgeproxy.db when the run began
RenewOrder ==
    LET p == r.sub.usage_point_id
        alive == r.sub \in {KeyOf(sub) : sub \in subscriptions}
    IN
    /\ r.pc = "orders"
    /\ IF r.types = {}
       THEN /\ r' = [r EXCEPT !.pc = "loop", !.sub = IdleR.sub, !.consent = 0,
                              !.failed = {}]
            /\ goc' = NoGoc
            /\ UNCHANGED <<store, dso_log>>
       ELSE \E ty \in r.types :
            LET found == find_existing(p, ty, r.now)
                row == EnterRow(WebservicesCall(SubscribeService, p, r.sub.user_id,
                                                r.consent), now)
                commit_ok == CallIntegrity(row, consents_usage_points, usage_points)
            IN
            IF ~alive
            THEN /\ r' = [r EXCEPT !.types = r.types \ {ty},
                                   !.failed = r.failed \cup {ty}]
                 /\ goc' = NoGoc
                 /\ UNCHANGED <<store, dso_log>>
            ELSE IF found # {}
            THEN /\ \E o \in found :
                       /\ subscriptions_calls' = subscriptions_calls \cup {<<r.sub, o>>}
                       /\ goc' = Called(p, ty, o, FALSE)
                 /\ r' = [r EXCEPT !.types = r.types \ {ty}]
                 /\ UNCHANGED <<users, usage_points, segment_known, level_known, consents,
                                consents_users, consents_usage_points, webservices_calls,
                                subscriptions, orders, dso_log>>
            ELSE /\ Len(webservices_calls) < MaxCalls
                 /\ Len(dso_log) < MaxCalls
                 /\ IF EnterRaises(commit_ok)
                    THEN /\ r' = [r EXCEPT !.types = r.types \ {ty},
                                           !.failed = r.failed \cup {ty}]
                         /\ goc' = Called(p, ty, 0, FALSE)
                         /\ UNCHANGED <<store, dso_log>>
                    ELSE /\ EnterCommit(commit_ok, row, consents_usage_points, usage_points)
                         /\ r' = [r EXCEPT !.pc = "subscribe", !.ty = ty,
                                           !.row = Len(webservices_calls) + 1,
                                           !.exp = OrderExpiresAt(r.consent, now)]
                         /\ dso_log' = DsoStart("subscribe", p, ty,
                                                Len(webservices_calls) + 1)
                         /\ goc' = Called(p, ty, 0, TRUE)
                         /\ UNCHANGED <<users, segment_known, level_known, consents,
                                        consents_users, subscriptions, orders,
                                        subscriptions_calls>>
    /\ resp' = NoResp /\ resolved' = NoResolved /\ scope' = NoScope
    /\ UNCHANGED <<now, import_time, h, updates>>
    /\ UNCHANGED <<disk, publisher, blocks>>

\* do_renew_subscriptions: from the answer of the DSO to the subscribe
\* request up to the commit that links the new order; every exception is
\* logged and the inner loop goes on
RenewDone(ex) ==
    LET order == WebservicesCallsSubscriptions(r.row, r.ty, r.exp)
        alive == r.sub \in {KeyOf(sub) : sub \in subscriptions}
    IN
    /\ r.pc = "subscribe"
    /\ ExitCommit(r.row, ex)
    /\ scope' = Left(r.row, ex)
    /\ IF ExitRaises(ex).type = "None" /\ OrderIntegrity(order) /\ alive
       THEN /\ orders' = Append(orders, order)
            /\ subscriptions_calls' = subscriptions_calls \cup {<<r.sub, Len(orders) + 1>>}
            /\ r' = [r EXCEPT !.pc = "orders", !.types = r.types \ {r.ty}, !.ty = "",
                              !.row = 0, !.exp = 0]
       ELSE /\ UNCHANGED <<orders, subscriptions_calls>>
            /\ r' = [r EXCEPT !.pc = "orders", !.types = r.types \ {r.ty}, !.ty = "",
                              !.row = 0, !.exp = 0, !.failed = r.failed \cup {r.ty}]
    /\ resp' = NoResp /\ resolved' = NoResolved /\ goc' = NoGoc
    /\ UNCHANGED <<now, import_time, users, usage_points, segment_known, level_known,
                   consents, consents_users, consents_usage_points, subscriptions, h,
                   dso_log, updates>>
    /\ UNCHANGED <<disk, publisher, blocks>>

\* ------------------------------------------------------------- publisher
\* the DSO drops a file in the inbox; a file that arrives during a run is
\* not in the list of that run and waits for the next one
Arrive(f) ==
    /\ pub.pc = "idle"
    /\ f \notin arrived
    /\ Cardinality(arrived) < MaxFiles
    /\ inbox' = inbox \cup {f}
    /\ arrived' = arrived \cup {f}
    /\ UNCHANGED <<blocks, now, import_time, store, h, r, dso_log, resp, resolved, goc, scope,
                   updates, archive, errors, temp_dirs, publisher>>

\* publisher.py is started: sgeproxy.db is imported, files = list(glob())
PublisherStart ==
    /\ pub.pc = "idle"
    /\ pub.run < MaxRuns
    /\ inbox # {}
    /\ pub' = [IdleP EXCEPT !.pc = "parse", !.run = pub.run + 1, !.import_time = now,
                            !.discovered = inbox, !.files = inbox]
    /\ sent' = NoSent
    /\ UNCHANGED <<blocks, now, import_time, store, h, r, dso_log, resp, resolved, goc, scope,
                   updates, disk, delivered>>

\* the body of the inner while loop for one file: the records of the file
\* are added to records_by_name as they are yielded, then the file joins
\* the group, is archived, or is moved to errors
ParseFile(f) ==
    LET file == Catalogue[f]
        out == file_records(file)
        added == [k \in DOMAIN out.yielded |-> [out.yielded[k] EXCEPT !.file = f]]
    IN
    /\ pub.pc = "parse"
    /\ f \in pub.files
    /\ Len(pub.files_group) < GroupFiles
    /\ IF file.isdir
       THEN /\ pub' = [pub EXCEPT !.files = pub.files \ {f}]
            /\ UNCHANGED <<inbox, archive, errors, temp_dirs>>
       ELSE /\ temp_dirs' = temp_dirs + out.left_behind
            /\ IF out.raised
               THEN /\ pub' = [pub EXCEPT !.files = pub.files \ {f},
                                          !.records = pub.records \o added]
                    /\ inbox' = inbox \ {f}
                    /\ errors' = Renamed(errors, f)
                    /\ UNCHANGED archive
               ELSE IF Len(added) > 0
               THEN /\ pub' = [pub EXCEPT !.files = pub.files \ {f},
                                          !.records = pub.records \o added,
                                          !.files_group = Append(pub.files_group, f)]
                    /\ UNCHANGED <<inbox, archive, errors>>
               ELSE /\ pub' = [pub EXCEPT !.files = pub.files \ {f}]
                    /\ inbox' = inbox \ {f}
                    /\ archive' = Renamed(archive, f)
                    /\ UNCHANGED errors
    /\ sent' = NoSent
    /\ UNCHANGED <<blocks, now, import_time, store, h, r, dso_log, resp, resolved, goc, scope,
                   updates, arrived, delivered>>

\* the group is complete: db_session.query(Subscription).all() when some
\* record was read
QuerySubscriptions ==
    /\ pub.pc = "parse"
    /\ pub.files = {} \/ Len(pub.files_group) = GroupFiles
    /\ pub' = [pub EXCEPT !.pc = "notify",
                          !.todo = IF Len(pub.records) # 0
                                   THEN {KeyOf(sub) : sub \in subscriptions}
                                   ELSE {}]
    /\ sent' = NoSent
    /\ UNCHANGED <<blocks, now, import_time, store, h, r, dso_log, resp, resolved, goc, scope,
                   updates, disk, delivered>>

\* the next subscription of the loop and the chunks of its records
NextSubscription ==
    /\ pub.pc = "notify"
    /\ pub.chunks = <<>>
    /\ pub.todo # {}
    /\ \E key \in pub.todo :
          pub' = [pub EXCEPT !.todo = pub.todo \ {key}, !.sub = key,
                             !.chunks = get(pub.records, key, ChunkSize)]
    /\ sent' = NoSent
    /\ UNCHANGED <<blocks, now, import_time, store, h, r, dso_log, resp, resolved, goc, scope,
                   updates, disk, delivered>>

\* with sub.notification_checks(): __enter__ and its commit; the date is the
\* default of notification_checks.  An IntegrityError leaves the script
EnterNotification ==
    LET old == CHOOSE y \in subscriptions : KeyOf(y) = pub.sub
        sub == EnterNotified(old, pub.import_time)
        commit_ok == SubscriptionIntegrity(sub, consents_usage_points)
    IN
    /\ pub.pc = "notify"
    /\ pub.chunks # <<>>
    /\ IF commit_ok
       THEN /\ subscriptions' = {IF KeyOf(y) = pub.sub THEN sub ELSE y : y \in subscriptions}
            /\ pub' = [pub EXCEPT !.pc = "send"]
       ELSE /\ pub' = [pub EXCEPT !.pc = "idle", !.ended = "failed"]
            /\ UNCHANGED subscriptions
    /\ sent' = [NoSent EXCEPT !.sub = pub.sub, !.at = now, !.entered = commit_ok]
    /\ UNCHANGED <<blocks, now, import_time, users, usage_points, segment_known, level_known,
                   consents, consents_users, consents_usage_points, webservices_calls,
                   orders, subscriptions_calls, h, r, dso_log, resp, resolved, goc,
                   scope, updates, disk, delivered>>

\* xmpp.send_data returned or raised, then __exit__ and its commit; an
\* exception leaves the script
SendDone(raised) ==
    LET old == CHOOSE y \in subscriptions : KeyOf(y) = pub.sub
        sub == [old EXCEPT !.status = ExitStatus(raised)]
    IN
    /\ pub.pc = "send"
    /\ subscriptions' = {IF KeyOf(y) = pub.sub THEN sub ELSE y : y \in subscriptions}
    /\ IF raised
       THEN /\ pub' = [pub EXCEPT !.pc = "idle", !.ended = "failed"]
            /\ UNCHANGED delivered
       ELSE /\ pub' = [pub EXCEPT !.pc = "notify", !.chunks = Tail(pub.chunks)]
            /\ delivered' = delivered \cup
                               {Head(pub.chunks)[k].file : k \in DOMAIN Head(pub.chunks)}
    /\ sent' = [NoSent EXCEPT !.sub = pub.sub, !.at = now, !.entered = TRUE,
                              !.left = TRUE, !.raised = raised]
    /\ UNCHANGED <<blocks, now, import_time, users, usage_points, segment_known, level_known,
                   consents, consents_users, consents_usage_points, webservices_calls,
                   orders, subscriptions_calls, h, r, dso_log, resp, resolved, goc,
                   scope, updates, disk>>

\* the files of the group are archived, in the order they were read; the run
\* goes on with the next group or ends
RECURSIVE ArchiveAll(_, _)
ArchiveAll(dir, group) ==
    IF group = <<>> THEN dir ELSE ArchiveAll(Renamed(dir, Head(group)), Tail(group))

ArchiveGroup ==
    /\ pub.pc = "notify"
    /\ pub.chunks = <<>>
    /\ pub.todo = {}
    /\ archive' = ArchiveAll(archive, pub.files_group)
    /\ inbox' = inbox \ {pub.files_group[k] : k \in DOMAIN pub.files_group}
    /\ pub' = IF pub.files = {}
              THEN [IdleP EXCEPT !.run = pub.run, !.import_time = pub.import_time,
                                 !.ended = "completed", !.discovered = pub.discovered]
              ELSE [pub EXCEPT !.pc = "parse", !.files_group = <<>>, !.records = <<>>,
                               !.sub = IdleP.sub]
    /\ sent' = NoSent
    /\ UNCHANGED <<blocks, now, import_time, store, h, r, dso_log, resp, resolved, goc, scope,
                   updates, errors, temp_dirs, arrived, delivered>>

\* the submissions the clients send
Identifiers == (Users \X UsagePoints) \cup {<<Stranger, "p1">>}
Requested == (Users \X UsagePoints \X {RawSeries, IndexSeries})
                 \cup {<<Stranger, "p1", IndexSeries>>, <<"alice", "p1", UnsupportedSeries>>}
Measurements == {<<>>, <<"consumption">>, IndexSeries}
Cancelled == (Users \X UsagePoints \X Measurements) \cup {<<Stranger, "p1", <<>>>>}

\* the proxy process alone, every submission
Next ==
    \/ Tick
    \/ Deliver
    \/ \E i \in Identifiers : SubmitGetHistory(i[1], i[2])
    \/ \E ex \in HistoryOutcomes : HistoryDone(ex)
    \/ \E i \in Requested : SubmitSubscribe(i[1], i[2], i[3])
    \/ \E ex \in TechnicalOutcomes : TechnicalDone(ex)
    \/ NextOrder
    \/ \E ex \in SubscribeOutcomes : SubscribeDone(ex)
    \/ \E i \in Cancelled : SubmitUnsubscribe(i[1], i[2], i[3])

Spec == Init /\ [][Next]_vars

\* the proxy, the renewal script and the operator of the store, on the
\* index series of one usage point
NextStore ==
    \/ Tick
    \/ Deliver
    \/ \E c \in ConsentIds, e \in 1 .. MaxTime + 1 : UpdateConsent(c, e)
    \/ \E u \in Users : SubmitGetHistory(u, "p1")
    \/ \E ex \in HistoryOutcomes : HistoryDone(ex)
    \/ \E u \in Users : SubmitSubscribe(u, "p1", IndexSeries)
    \/ NextOrder
    \/ \E ex \in SubscribeOutcomes : SubscribeDone(ex)
    \/ RenewStart
    \/ RenewNext
    \/ RenewOrder
    \/ \E ex \in SubscribeOutcomes : RenewDone(ex)

SpecStore == Init /\ [][NextStore]_vars

\* the store when the publisher is installed: alice and bob subscribed to
\* the index series of p1 at instant 0, bob through his open consent, and
\* share the order alice's submission placed
InitPublisher ==
    /\ now = 0
    /\ import_time = 0
    /\ users = Users
    /\ usage_points = {"p1"}
    /\ segment_known = {"p1"}
    /\ level_known = {"p1"}
    /\ consents = (1 :> [is_open |-> FALSE, begins_at |-> 0, expires_at |-> 2])
               @@ (2 :> [is_open |-> TRUE, begins_at |-> 0, expires_at |-> 3])
    /\ consents_users = {<<1, "alice">>, <<2, "bob">>}
    /\ consents_usage_points = {<<1, "p1">>, <<2, "p1">>}
    /\ webservices_calls =
          <<ExitRow(EnterRow(WebservicesCall(SubscribeService, "p1", "alice", 1), 0),
                    NoException)>>
    /\ subscriptions = {Subscription("alice", "p1", IndexSeries, 1),
                        Subscription("bob", "p1", IndexSeries, 2)}
    /\ orders = <<WebservicesCallsSubscriptions(1, "CONSUMPTION_IDX", OrderExpiresAt(1, 0))>>
    /\ subscriptions_calls = {<<SubKey("alice", "p1", IndexSeries), 1>>,
                              <<SubKey("bob", "p1", IndexSeries), 1>>}
    /\ h = IdleH
    /\ resp = NoResp
    /\ r = IdleR
    /\ dso_log = <<[op |-> "subscribe", up |-> "p1", ty |-> "CONSUMPTION_IDX", row |-> 1]>>
    /\ resolved = NoResolved
    /\ goc = NoGoc
    /\ scope = NoScope
    /\ updates = 0
    /\ inbox = {}
    /\ archive = {}
    /\ errors = {}
    /\ temp_dirs = 0
    /\ arrived = {}
    /\ pub = IdleP
    /\ delivered = {}
    /\ sent = NoSent
    /\ conv = IdleC
    /\ parser = NoFile
    /\ reader = NoRead
    /\ PARAMS = Subscribe_PARAMS
    /\ demande = NoDemande
    /\ expired = NoExpired

\* the publisher script, run from time to time on what the DSO dropped
NextPublisher ==
    \/ Tick
    \/ \E f \in DOMAIN Catalogue : Arrive(f)
    \/ PublisherStart
    \/ \E f \in DOMAIN Catalogue : ParseFile(f)
    \/ QuerySubscriptions
    \/ NextSubscription
    \/ EnterNotification
    \/ \E raised \in BOOLEAN : SendDone(raised)
    \/ ArchiveGroup

SpecPublisher == InitPublisher /\ [][NextPublisher]_vars

\* ------------------------------------------------ consent_for alone
\* any consents table and any scope links; alice has two consents, one of
\* which she shares with bob
InitConsent ==
    /\ now = 0
    /\ import_time = 0
    /\ users = Users
    /\ usage_points = UsagePoints
    /\ segment_known = {}
    /\ level_known = {}
    /\ consents \in [ConsentIds -> {row \in [is_open : BOOLEAN, begins_at : 0 .. MaxTime,
                                             expires_at : 1 .. MaxTime + 1] :
                                       row.begins_at < row.expires_at}]
    /\ consents_users = {<<1, "alice">>, <<2, "alice">>, <<2, "bob">>}
    /\ consents_usage_points \in SUBSET (ConsentIds \X UsagePoints)
    /\ webservices_calls = <<>>
    /\ subscriptions = {}
    /\ orders = <<>>
    /\ subscriptions_calls = {}
    /\ h = IdleH
    /\ resp = NoResp
    /\ r = IdleR
    /\ dso_log = <<>>
    /\ resolved = NoResolved
    /\ goc = NoGoc
    /\ scope = NoScope
    /\ updates = 0
    /\ inbox = {}
    /\ archive = {}
    /\ errors = {}
    /\ temp_dirs = 0
    /\ arrived = {}
    /\ pub = IdleP
    /\ delivered = {}
    /\ sent = NoSent
    /\ conv = IdleC
    /\ parser = NoFile
    /\ reader = NoRead
    /\ PARAMS = Subscribe_PARAMS
    /\ demande = NoDemande
    /\ expired = NoExpired

\* user.consent_for(session, usage_point, call_date): the tables are the
\* ones the session sees
ConsentFor(u, p, t) ==
    /\ \E x \in consent_for(consents_usage_points, u, p, t) :
          /\ resolved' = Resolution("call", u, p, t, x)
          /\ consents_usage_points' = SessionScope(x, p)
          /\ usage_points' = find_or_create(x, p)
    /\ UNCHANGED <<now, import_time, users, segment_known, level_known, consents,
                   consents_users, webservices_calls, subscriptions, orders,
                   subscriptions_calls, h, r, dso_log, resp, goc, scope, updates,
                   disk, publisher, blocks>>

NextConsent == \E u \in Users, p \in UsagePoints, t \in 0 .. MaxTime : ConsentFor(u, p, t)

SpecConsent == InitConsent /\ [][NextConsent]_vars

\* ------------------------------------------------ the R171 parser alone
\* ET.parse(xml_doc) of a file
OpenR171(series) ==
    /\ parser.pc = "none"
    /\ parser' = [NoFile EXCEPT !.pc = "opened", !.series = series]
    /\ UNCHANGED <<now, import_time, store, h, r, dso_log, resp, resolved, goc, scope,
                   updates, disk, publisher, conv, expired, reader, PARAMS, demande>>

\* for meta, record in R171(data_file).records(): the whole iteration
ReadR171 ==
    /\ parser.pc = "opened"
    /\ parser' = [parser EXCEPT !.pc = "read",
                                !.records = R171_records(parser.series).records,
                                !.raised = R171_records(parser.series).raised]
    /\ UNCHANGED <<now, import_time, store, h, r, dso_log, resp, resolved, goc, scope,
                   updates, disk, publisher, conv, expired, reader, PARAMS, demande>>

\* the files have up to MaxElements series
NextR171 ==
    \/ /\ parser.pc = "none"
       /\ \E n \in 1 .. MaxElements :
          \E series \in [1 .. n -> R171Series] : OpenR171(series)
    \/ ReadR171

SpecR171 == Init /\ [][NextR171]_vars

\* ------------------------------------------------- the R50 parser alone
\* for meta, record in R50(data_file).records(): the whole iteration
ReadR50(file) ==
    /\ parser.pc = "none"
    /\ parser' = [pc |-> "read", series |-> file] @@ R50_records(file)
    /\ UNCHANGED <<now, import_time, store, h, r, dso_log, resp, resolved, goc, scope,
                   updates, disk, publisher, conv, expired, reader, PARAMS, demande>>

\* the files have one PRM of up to MaxSamples PDC elements, in any order,
\* stamped on the half hours or between them, one of them without value;
\* a second PRM, of two samples half an hour apart, may follow
NextR50 ==
    /\ parser.pc = "none"
    /\ \E period \in {30, 60}, n \in 0 .. MaxSamples, more \in BOOLEAN :
       \E pdc \in [1 .. n -> {[H |-> 30, V |-> 7], [H |-> 45, V |-> 7], [H |-> 60, V |-> 7],
                           [H |-> 105, V |-> 7], [H |-> 150, V |-> 7],
                           [H |-> 90, V |-> NoValue]}] :
          ReadR50([period |-> period,
                   prms |-> IF more /\ period = 30
                            THEN <<[id |-> "p1", pdc |-> pdc],
                                   [id |-> "p2", pdc |-> <<[H |-> 30, V |-> 5],
                                                           [H |-> 60, V |-> 6]>>]>>
                            ELSE <<[id |-> "p1", pdc |-> pdc]>>])

SpecR50 == Init /\ [][NextR50]_vars

\* ------------------------------------------------ expired_calls alone
\* a subscription of alice to a series of p1, and up to MaxCalls orders of
\* the call types of that series, each linked to it or not
InitExpired ==
    /\ now = 0
    /\ import_time = 0
    /\ users = Users
    /\ usage_points = {"p1"}
    /\ segment_known = {"p1"}
    /\ level_known = {"p1"}
    /\ consents = (1 :> [is_open |-> FALSE, begins_at |-> 0, expires_at |-> MaxTime + 1])
               @@ (2 :> [is_open |-> TRUE, begins_at |-> 0, expires_at |-> MaxTime + 1])
    /\ consents_users = {<<1, "alice">>, <<2, "bob">>}
    /\ consents_usage_points = {<<1, "p1">>}
    /\ \E series \in SupportedSeries \cup {UnsupportedSeries} :
       \E n \in 0 .. MaxCalls :
          /\ subscriptions = {Subscription("alice", "p1", series, 1)}
          /\ webservices_calls =
                [i \in 1 .. n |->
                    ExitRow(EnterRow(WebservicesCall(SubscribeService, "p1", "alice", 1), 0),
                            NoException)]
          /\ orders \in
                [1 .. n -> {WebservicesCallsSubscriptions(i, ty, exp) :
                               i \in 1 .. n,
                               ty \in IF series \in SupportedSeries
                                      THEN {RequiredTypes(series)[k] :
                                               k \in DOMAIN RequiredTypes(series)}
                                      ELSE {},
                               exp \in 1 .. MaxTime + 1}]
          /\ \A i \in 1 .. n : orders[i].webservices_call_id = i
          /\ subscriptions_calls \in
                SUBSET {<<SubKey("alice", "p1", series), o>> : o \in 1 .. n}
    /\ h = IdleH
    /\ resp = NoResp
    /\ r = IdleR
    /\ dso_log = <<>>
    /\ resolved = NoResolved
    /\ goc = NoGoc
    /\ scope = NoScope
    /\ updates = 0
    /\ inbox = {}
    /\ archive = {}
    /\ errors = {}
    /\ temp_dirs = 0
    /\ arrived = {}
    /\ pub = IdleP
    /\ delivered = {}
    /\ sent = NoSent
    /\ conv = IdleC
    /\ parser = NoFile
    /\ reader = NoRead
    /\ PARAMS = Subscribe_PARAMS
    /\ demande = NoDemande
    /\ expired = NoExpired

\* sub.expired_calls(now)
ExpiredCalls(key, t) ==
    /\ expired' = [key |-> key, t |-> t, raised |-> expired_calls(key, t).raised,
                   calls |-> expired_calls(key, t).calls]
    /\ UNCHANGED <<now, import_time, store, h, r, dso_log, resp, resolved, goc, scope,
                   updates, disk, publisher, conv, parser, reader, PARAMS, demande>>

NextExpired ==
    \E sub \in subscriptions, t \in 0 .. MaxTime + 1 : ExpiredCalls(KeyOf(sub), t)

SpecExpired == InitExpired /\ [][NextExpired]_vars

\* ------------------------------------------------ the converter alone
\* with SgeErrorConverter(): __enter__
EnterConverter ==
    /\ conv.pc = "idle"
    /\ conv' = [IdleC EXCEPT !.pc = "body"]
    /\ UNCHANGED <<now, import_time, store, h, r, dso_log, resp, resolved, goc, scope,
                   updates, disk, publisher, parser, expired, reader, PARAMS, demande>>

\* the body returns (ex = Nothing) or raises ex, and __exit__ runs
ExitConverter(ex) ==
    /\ conv.pc = "body"
    /\ conv' = [pc |-> "left", ex |-> ex,
                out |-> IF ex = Nothing THEN Nothing
                        ELSE SgeErrorConverterExit(ex, ex.id + 1)]
    /\ UNCHANGED <<now, import_time, store, h, r, dso_log, resp, resolved, goc, scope,
                   updates, disk, publisher, parser, expired, reader, PARAMS, demande>>

NextConverter ==
    \/ EnterConverter
    \/ \E ex \in Raisable \cup {Nothing} : ExitConverter(ex)

SpecConverter == Init /\ [][NextConverter]_vars

\* ------------------------------------------------ the loop over the keys
\* for metadata, record in file_records(path), consumed to its end, for a
\* stream file and the keys of a configuration
ReadFile(file, keys) ==
    /\ reader.pc = "none"
    /\ reader' = [pc |-> "read", file |-> file, keys |-> keys,
                  out |-> TryKeys(file, keys)]
    /\ UNCHANGED <<now, import_time, store, h, r, dso_log, resp, resolved, goc, scope,
                   updates, disk, publisher, conv, parser, expired, PARAMS, demande>>

\* a file encrypted with one of three keys, or with none of them (0), that
\* unzips or not, and up to MaxKeys of the keys in the configuration
NextKeys ==
    \E key \in 0 .. 3, unzips \in BOOLEAN, n \in 1 .. MaxKeys :
    \E data \in {<<>>, <<Rec("p1", IndexSeries, 1)>>,
                  <<Rec("p1", IndexSeries, 1), Rec("p1", IndexSeries, 2)>>,
                  <<Rec("p1", IndexSeries, 1), Rec("p1", IndexSeries, 1)>>,
                  <<Rec("p1", IndexSeries, 1), Bad>>, <<Bad>>},
       keys \in [1 .. n -> 1 .. 3] :
        ReadFile(StreamFile("ERDF_R151_1.zip", key, unzips, data), keys)

SpecKeys == Init /\ [][NextKeys]_vars

\* ------------------------------------------- sge.Subscribe.subscribe alone
\* Subscribe.subscribe, up to the request handed to the SOAP client; the
\* dates of the request are the days of the instants, a tick of the clock
\* being longer than a day
subscribe(usage_point_id, call_type, expires_at, is_linky, consent_issuer_is_company, consent_issuer_name) ==
    LET dated == [PARAMS[call_type] EXCEPT !.dateDebut = now, !.dateFin = expires_at]
        declaration ==
            IF consent_issuer_is_company
            THEN ("personneMorale" :> [denominationSociale |-> consent_issuer_name])
                     @@ dated.declarationAccordClient
            ELSE ("personnePhysique" :> [nom |-> consent_issuer_name])
                     @@ dated.declarationAccordClient
        params == [dated EXCEPT !.declarationAccordClient = declaration,
                                !.mesuresPas = IF dated.mesuresTypeCode = "IDX" THEN "P1D"
                                               ELSE IF is_linky THEN "PT30M"
                                               ELSE "PT10M"]
    IN
    /\ PARAMS' = [PARAMS EXCEPT ![call_type] = params]
    /\ demande' = {[donneesGenerales |->
                       [objetCode |-> "AME", pointId |-> usage_point_id,
                        initiateurLogin |-> "login", contratId |-> "contract"],
                    accesMesures |-> params]}
    /\ UNCHANGED <<now, import_time, store, h, r, dso_log, resp, resolved, goc, scope,
                   updates, disk, publisher, conv, parser, expired, reader>>

\* the orders of the index and raw series, for a person or a company
NextSubscribe ==
    \/ Tick
    \/ \E call_type \in {"CONSUMPTION_IDX", "CONSUMPTION_CDC_RAW"},
          expires_at \in 1 .. MaxTime + 1, is_linky \in BOOLEAN,
          consent_issuer_is_company \in BOOLEAN,
          consent_issuer_name \in {"Dupont", "Lowatt"} :
            /\ now < expires_at
            /\ subscribe("p1", call_type, expires_at, is_linky,
                         consent_issuer_is_company, consent_issuer_name)

SpecSubscribe == Init /\ [][NextSubscribe]_vars

\* ================================================================ claims
\* the positions of a process that are inside a CheckedWebserviceCall scope
InScope(i) ==
    \/ h.pc \in {"history", "technical", "subscribe"} /\ h.row = i
    \/ r.pc = "subscribe" /\ r.row = i

\* C1: a DSO operation starts only after its webservices_calls row has been
\* added and committed: every DSO operation started so far has its own
\* committed row, a process waiting for the DSO is inside the scope of a
\* committed row, and a commit refused by the store starts no operation
\* (as many operations were started as rows were committed).
C1_CallAfterCommit ==
    /\ Len(dso_log) = Len(webservices_calls)
    /\ \A i \in DOMAIN dso_log :
          /\ dso_log[i].row = i
          /\ i \in DOMAIN webservices_calls
          /\ webservices_calls[i].usage_point_id = dso_log[i].up
    /\ h.pc \in {"history", "technical", "subscribe"} =>
          /\ h.row \in DOMAIN webservices_calls
          /\ webservices_calls[h.row].status = Null
    /\ r.pc = "subscribe" =>
          /\ r.row \in DOMAIN webservices_calls
          /\ webservices_calls[r.row].status = Null

\* the store refused the commit of __enter__ after an earlier call went
\* through: the handler answered and no operation was started
C1_Witness ==
    /\ Len(dso_log) = 1
    /\ Len(webservices_calls) = 1
    /\ resp.kind = "get_history"
    /\ resolved.ok
    /\ resp.result = "not-authorized"
    /\ resp.dso = 0

\* C2: a get_history or subscribe submission from a user that no consent
\* covers on the usage point at the instant of the request is answered
\* not-authorized and no DSO operation is invoked for it.
C2_UncoveredIsRefused ==
    (/\ resp.kind \in {"get_history", "subscribe"}
     /\ ~resp.covered
     /\ resp.fresh
     /\ resp.result # "bad-request")
        => (resp.result = "not-authorized" /\ resp.dso = 0)

C4_ExitRecords ==
    scope.row # 0 =>
        LET row == webservices_calls[scope.row]
        IN  IF scope.ex.type = "None"
            THEN /\ row.status = "OK"
                 /\ row.error = Null
                 /\ scope.raised = NoException
            ELSE /\ row.status = "FAILED"
                 /\ row.error = Str(scope.ex)
                 /\ scope.raised = scope.ex

\* the DSO answered SGT570 inside a scope
C4_Witness ==
    /\ scope.row # 0
    /\ scope.ex.type = "SgeError"
    /\ scope.ex.code = "SGT570"
    /\ webservices_calls[scope.row].error = "SGT570: service deja actif"
    /\ scope.raised.code = "SGT570"

\* C5: whatever the handlers, the renewal script and the updates of consents
\* did, every webservices_calls row satisfies consent_begins_at <= called_at
\* < consent_expires_at, carries the interval its consent has in the
\* consents table, and its (consent, user) and (consent, usage point) pairs
\* are in the link tables.
C5_LedgerIntegrity ==
    \A i \in DOMAIN webservices_calls :
        LET row == webservices_calls[i]
        IN  /\ row.consent_begins_at <= row.called_at
            /\ row.called_at < row.consent_expires_at
            /\ row.consent_begins_at = consents[row.consent_id].begins_at
            /\ row.consent_expires_at = consents[row.consent_id].expires_at
            /\ <<row.consent_id, row.user_id>> \in consents_users
            /\ <<row.consent_id, row.usage_point_id>> \in consents_usage_points

\* the renewal script is inside the scope of a row while another row has
\* followed its consent to a new interval
C5_Witness ==
    /\ r.pc = "subscribe"
    /\ updates = 1
    /\ \E i \in DOMAIN webservices_calls :
          /\ i # r.row
          /\ webservices_calls[i].consent_id = 1
          /\ webservices_calls[i].consent_expires_at # 2

\* C6: consent_for(user, usage_point, t) returns only a consent that is
\* linked to the user and to the usage point and whose interval holds t,
\* begins_at <= t < expires_at; it refuses when no consent of the user that
\* is open or linked to the usage point holds t, so that t = expires_at is
\* refused.
C6_ResolvedConsentIsValid ==
    /\ resolved.ok =>
          /\ resolved.linked
          /\ consents[resolved.consent].begins_at <= resolved.t
          /\ resolved.t < consents[resolved.consent].expires_at
    /\ (resolved.by # "none" /\ ~resolved.ok) =>
          \A c \in ConsentIds :
              (/\ <<c, resolved.user>> \in consents_users
               /\ \/ <<c, resolved.up>> \in consents_usage_points
                  \/ consents[c].is_open)
                  => ~(consents[c].begins_at <= resolved.t
                       /\ resolved.t < consents[c].expires_at)

\* the renewal script asked for the instant at which the consent of the
\* user expires and was refused
C6_Witness ==
    /\ resolved.by = "renewal"
    /\ ~resolved.ok
    /\ \E c \in ConsentIds :
          /\ <<c, resolved.user>> \in consents_users
          /\ <<c, resolved.up>> \in consents_usage_points
          /\ consents[c].expires_at = resolved.t

\* C7: each get_history or subscribe submission resolves the consent at the
\* instant the request is handled.
C7_ResolvedAtRequestInstant ==
    resolved.by = "handler" => resolved.t = resolved.at

\* C8: the first use of an open consent on a usage point appends exactly
\* one scope link (consent, usage point), creating the usage point row when
\* there was none, and returns that consent; asked again, consent_for
\* returns the same consent and appends nothing.
C8_OpenConsentFirstUse ==
    /\ resolved.added =>
          /\ resolved.ok
          /\ consents[resolved.consent].is_open
          /\ resolved.links_added = 1
          /\ resolved.linked
          /\ resolved.again_same
          /\ h.pc # "idle" =>
                /\ <<resolved.consent, resolved.up>> \in consents_usage_points
                /\ resolved.up \in usage_points
    /\ (resolved.ok /\ ~resolved.added) =>
          (resolved.links_added = 0 /\ ~resolved.created)

\* an open consent was used for a usage point that had no row, and the
\* handler went on
C8_Witness ==
    /\ resolved.added
    /\ resolved.created
    /\ h.pc = "technical"
    /\ resolved.up \in usage_points

\* C9: whenever an order for (usage point, call type) with expires_at > now
\* is in the store, get_or_call_sge_subscription returns such an order and
\* the DSO subscribe operation is not invoked.
C9_ValidOrderIsReused ==
    (goc.up # "" /\ goc.valid) =>
        /\ ~goc.invoked
        /\ goc.returned \in OrdersAt(goc.up, goc.ty, now)

CallTypes == {"CONSUMPTION_IDX", "CONSUMPTION_CDC_ENABLE", "CONSUMPTION_CDC_RAW"}

\* the subscriptions on p whose series requires the call type ty
Requiring(p, ty) ==
    {sub \in subscriptions :
        /\ sub.usage_point_id = p
        /\ \E k \in DOMAIN RequiredTypes(sub.series_name) :
              RequiredTypes(sub.series_name)[k] = ty}

C11_AllRequiredCalled ==
    [][(/\ resp' # NoResp
        /\ resp'.kind = "subscribe"
        /\ resp'.fresh
        /\ resp'.result = "Success")
       => /\ Len(h.types) <= 1
          /\ h.pc = "orders" =>
                \A k \in DOMAIN RequiredTypes(h.series) :
                    \E l \in subscriptions_calls :
                        /\ l[1] = SubKey(h.user, h.up, h.series)
                        /\ orders[l[2]].call_type = RequiredTypes(h.series)[k]]_vars

\* C12: when the DSO answers a subscribe call with SGT570 the Subscribe
\* handler answers the Success form and the client sees no error; any other
\* DSO error code reaches the client as an upstream-error that carries the
\* code.
C12_Sgt570Absorbed ==
    (/\ resp.kind = "subscribe"
     /\ scope.row # 0
     /\ webservices_calls[scope.row].webservice = SubscribeService
     /\ scope.ex.type = "SgeError")
        => IF scope.ex.code = "SGT570"
           THEN resp.result = "Success" /\ resp.code = ""
           ELSE resp.result = "upstream-error" /\ resp.code = scope.ex.code

\* the DSO answered SGT570 to the only subscribe call of a submission that
\* was answered Success
C12_Witness ==
    /\ resp.kind = "subscribe"
    /\ resp.result = "Success"
    /\ resp.dso = 1
    /\ scope.row # 0
    /\ webservices_calls[scope.row].webservice = SubscribeService
    /\ scope.ex = SgeError("SGT570", "service deja actif")

\* C13: Subscribe is idempotent.  After every step there is at most one
\* subscriptions row per (user, usage point, series name); a subscribe
\* submission for a triple that has a row is answered Success, creates no
\* row, commits no webservices_calls row and invokes no DSO operation.
C13_SubscribeIdempotent ==
    [][/\ (\A s1, s2 \in subscriptions : KeyOf(s1) = KeyOf(s2) => s1 = s2)'
       /\ \A i \in Requested :
             (/\ SubmitSubscribe(i[1], i[2], i[3])
              /\ \E sub \in subscriptions : KeyOf(sub) = SubKey(i[1], i[2], i[3]))
                 => /\ resp'.kind = "subscribe"
                    /\ resp'.result = "Success"
                    /\ resp'.dso = 0
                    /\ subscriptions' = subscriptions
                    /\ subscriptions_calls' = subscriptions_calls
                    /\ webservices_calls' = webservices_calls
                    /\ dso_log' = dso_log
                    /\ h' = IdleH]_vars

\* a second submission for a subscribed triple was answered Success
C13_Witness ==
    /\ resp.kind = "subscribe"
    /\ ~resp.fresh
    /\ resp.result = "Success"
    /\ resp.dso = 0
    /\ subscriptions # {}
    /\ h.pc = "idle"

\* C14: an unsubscribe submission of a known user deletes every subscriptions
\* row of that user on the usage point whose series is the one of the
\* identifier (every row of the user on the usage point when the identifier
\* has no series path), removes the links of the deleted rows, and an order
\* that was linked only to deleted rows is returned by query_unused
\* afterwards.
C14_UnsubscribeUnlinks ==
    [][\A i \in Cancelled :
          (SubmitUnsubscribe(i[1], i[2], i[3]) /\ i[1] \in users) =>
              LET matching == {sub \in subscriptions :
                                  /\ sub.user_id = i[1]
                                  /\ sub.usage_point_id = i[2]
                                  /\ (i[3] = <<>> \/ sub.series_name = i[3])}
                  deleted == {KeyOf(sub) : sub \in subscriptions \ subscriptions'}
              IN  /\ matching \cap subscriptions' = {}
                  /\ subscriptions' \subseteq subscriptions
                  /\ \A l \in subscriptions_calls' : l[1] \notin deleted
                  /\ \A o \in DOMAIN orders :
                        (/\ LinkedTo(o) # {}
                         /\ LinkedTo(o) \subseteq deleted) => o \in query_unused'
                  /\ orders' = orders
                  /\ resp'.result = "Success"]_vars

\* the last subscription linked to an order was cancelled: the order is
\* still in the store and nothing is linked to it
C14_Witness ==
    /\ resp.kind = "unsubscribe"
    /\ resp.result = "Success"
    /\ subscriptions = {}
    /\ query_unused # {}
    /\ query_unused = DOMAIN orders

\* the subscriptions row of a key
RowOf(key) == CHOOSE y \in subscriptions : KeyOf(y) = key

\* the instant t lies in the interval of the consent of the row
InsideConsent(sub, t) ==
    /\ consents[sub.consent_id].begins_at <= t
    /\ t < consents[sub.consent_id].expires_at

\* C15: every subscription with a notified_at satisfies consent.begins_at <=
\* notified_at < consent.expires_at for the consent it references, and a
\* notification attempt is let through to the send only when the instant of
\* the attempt lies in that interval.
C15_NotifiedInsideConsent ==
    /\ \A sub \in subscriptions :
          sub.notified_at # NoDate => InsideConsent(sub, sub.notified_at)
    /\ sent.entered => InsideConsent(RowOf(sent.sub), sent.at)

\* C16: the notification-check scope commits status null and a notified_at
\* before the chunk is sent; leaving the scope commits OK when the send
\* completed and FAILED when it raised or was cancelled; a notified
\* subscription has status null only while its chunk is being sent.
C16_NotificationScope ==
    /\ pub.pc = "send" =>
          /\ RowOf(pub.sub).status = Null
          /\ RowOf(pub.sub).notified_at # NoDate
    /\ sent.left =>
          RowOf(sent.sub).status = (IF sent.raised THEN "FAILED" ELSE "OK")
    /\ \A sub \in subscriptions :
          (sub.status = Null /\ sub.notified_at # NoDate) =>
              (pub.pc = "send" /\ pub.sub = KeyOf(sub))

\* a send raised after an earlier chunk went through: one subscription is
\* OK, the other FAILED, and the script has ended
C16_Witness ==
    /\ sent.left
    /\ sent.raised
    /\ pub.ended = "failed"
    /\ RowOf(sent.sub).status = "FAILED"
    /\ \E sub \in subscriptions : sub.status = "OK"

\* C17: after a delivery failure the subscription has status FAILED and the
\* files of the records that were being delivered to it are still in the
\* inbox when the run ends, so that the next run delivers them again.
C17_FailedDeliveryIsRetried ==
    (sent.left /\ sent.raised /\ pub.ended = "failed") =>
        /\ RowOf(sent.sub).status = "FAILED"
        /\ \A k \in DOMAIN Matching(pub.records, sent.sub) :
              Matching(pub.records, sent.sub)[k].file \in inbox

\* C18: when reading a stream file raises an exception, no record of that
\* file is delivered to a subscriber.
C18_NoPartialEmission ==
    \A f \in delivered : ~ file_records(Catalogue[f]).raised

\* C19: when a run of the publisher completes, every regular file it
\* discovered has left the inbox and is in exactly one of archive/<today>/
\* (read without exception) and errors/<today>/ (an exception was raised
\* while reading it).
C19_EveryFileDisposed ==
    pub.ended = "completed" =>
        \A f \in pub.discovered :
            ~ Catalogue[f].isdir =>
                /\ f \notin inbox
                /\ (f \in archive) # (f \in errors)
                /\ (f \in errors) <=> file_records(Catalogue[f]).raised

\* C20: the temporary decryption directory is removed on every exit path
\* of StreamFiles: once a file has been read, with or without an exception,
\* no temporary directory is left.
C20_TempDirRemoved == temp_dirs = 0

\* C21: every record sent to a subscriber belongs to that subscription: its
\* name starts with urn:dev:prm:<usage_point_id>_<series_name> of the
\* subscription, so that no record of another usage point or of another
\* series is delivered to it.
C21_OnlyOwnRecords ==
    \A c \in DOMAIN pub.chunks :
        \A k \in DOMAIN pub.chunks[c] :
            /\ pub.chunks[c][k].up = pub.sub.usage_point_id
            /\ StartsWith(pub.chunks[c][k].series, pub.sub.series_name)

\* a chunk is being sent to a subscriber of the index of p1 while the
\* records read hold one of another usage point and one of another series
C21_Witness ==
    /\ pub.pc = "send"
    /\ pub.chunks # <<>>
    /\ \E k \in DOMAIN pub.records : pub.records[k].up # pub.sub.usage_point_id
    /\ \E k \in DOMAIN pub.records :
          /\ pub.records[k].up = pub.sub.usage_point_id
          /\ ~ StartsWith(pub.records[k].series, pub.sub.series_name)

\* C22: within one subscription's delivery run the records are sent in the
\* order the parser emitted them: the chunks, one after the other in
\* sending order, are the selected records in emission order (here for the
\* chunks that remain to be sent, which are the end of that list).
C22_EmissionOrder ==
    LET to_send == Concat(pub.chunks)
        emitted == Matching(pub.records, pub.sub)
    IN  pub.chunks # <<>> =>
            /\ Len(to_send) <= Len(emitted)
            /\ to_send = SubSeq(emitted, Len(emitted) - Len(to_send) + 1, Len(emitted))

\* a SOAP fault, raised by the client as suds.WebFault
IsSoapFault(ex) == ex.type = "WebFault"

\* Exception((status, reason)) with an integer status
IsHttpFailure(ex) ==
    /\ ex.type = "Exception"
    /\ Len(ex.args) = 1
    /\ ex.args[1].tag = "tuple"
    /\ Len(ex.args[1].items) = 2
    /\ ex.args[1].items[1].tag = "int"

\* C23: SgeErrorConverter maps a SOAP fault to SgeError(message = fault
\* result value, code = fault result code) and an HTTP failure raised as
\* Exception((status, reason)) to SgeError(message = reason, code = string
\* form of the status).  The fault is one that has a result
\* (detail.erreur.resultat), the reason is a string.
C23_Conversion ==
    conv.pc = "left" =>
        /\ (IsSoapFault(conv.ex) /\ conv.ex.fault.resultat) =>
              /\ conv.out.type = "SgeError"
              /\ conv.out.message = conv.ex.fault.value
              /\ conv.out.code = conv.ex.fault.code
        /\ (IsHttpFailure(conv.ex) /\ conv.ex.args[1].items[2].tag = "str") =>
              /\ conv.out.type = "SgeError"
              /\ conv.out.message = conv.ex.args[1].items[2].str
              /\ conv.out.code = Decimal(conv.ex.args[1].items[1].int)

\* Exception((503, "Service Unavailable")) left the block as
\* SgeError("Service Unavailable", "503")
C23_Witness ==
    /\ conv.pc = "left"
    /\ IsHttpFailure(conv.ex)
    /\ conv.out.type = "SgeError"
    /\ conv.out.message = "Service Unavailable"
    /\ conv.out.code = "503"

\* C24: an exception raised inside SgeErrorConverter that is neither a SOAP
\* fault nor an HTTP (status, reason) failure propagates unchanged: the
\* very same exception object leaves the block, whatever its type and
\* arguments.
C24_OthersUnchanged ==
    (conv.pc = "left" /\ ~ IsSoapFault(conv.ex) /\ ~ IsHttpFailure(conv.ex)) =>
        conv.out = conv.ex

\* C25: when consent_for fails it raises PermissionError with the most
\* specific reason: "No consent registered" when no consent of the user is
\* scoped to the usage point, "is not valid yet" when such consents exist
\* but none has begun at t, and "is no longer valid" when some have begun
\* but none of them is unexpired at t.
C25_MostSpecificReason ==
    (resolved.by # "none" /\ ~ resolved.ok) =>
        LET scoped == {c \in ConsentIds :
                          /\ <<c, resolved.user>> \in consents_users
                          /\ <<c, resolved.up>> \in consents_usage_points}
            begun == {c \in scoped : consents[c].begins_at <= resolved.t}
        IN  /\ \A c \in begun : consents[c].expires_at <= resolved.t
            /\ resolved.error =
                  (IF scoped = {} THEN "No consent registered"
                   ELSE IF begun = {} THEN "is not valid yet"
                   ELSE "is no longer valid")

\* a failure for a user who has a consent for the usage point that has not
\* begun and another one that has expired
C25_Witness ==
    /\ resolved.by # "none"
    /\ ~ resolved.ok
    /\ resolved.error = "is no longer valid"
    /\ \E c \in ConsentIds :
          /\ <<c, resolved.user>> \in consents_users
          /\ <<c, resolved.up>> \in consents_usage_points
          /\ consents[c].begins_at > resolved.t

\* the sum of the second components of a set of pairs
RECURSIVE SetSum(_)
SetSum(pairs) ==
    IF pairs = {} THEN 0
    ELSE LET x == CHOOSE x \in pairs : TRUE IN x[2] + SetSum(pairs \ {x})

\* the measurements of the file read: <<series, position>>
Measurements171 ==
    {<<i, j>> \in (DOMAIN parser.series) \X (1 .. 2) :
        j \in DOMAIN parser.series[i].mesures}

\* the values of the consumption series of the distributor calendar, of a
\* quantity and unit, for a usage point at an instant
ClassValues(up, t, physique, units) ==
    {<<m, parser.series[m[1]].mesures[m[2]].valeur>> : m \in
        {m \in Measurements171 :
            /\ parser.series[m[1]].prmId = up
            /\ parser.series[m[1]].mesures[m[2]].dateFin = t
            /\ parser.series[m[1]].grandeurMetier = "CONS"
            /\ parser.series[m[1]].typeCalendrier = "D"
            /\ parser.series[m[1]].grandeurPhysique = physique
            /\ parser.series[m[1]].unite \in units}}

\* the positions of the derived records of a kind for a usage point at an
\* instant
Derived(up, t, kinds) ==
    {k \in DOMAIN parser.records :
        /\ parser.records[k].name[1] = up
        /\ parser.records[k].time = t
        /\ \E kind \in kinds : parser.records[k].name[2] = <<"consumption">> \o kind}

\* the positions of the records of the measurements
PerClass == {k \in DOMAIN parser.records : Len(parser.records[k].name[2]) = 6}

\* the usage points and instants of the file read
Instants171 ==
    {<<parser.series[m[1]].prmId, parser.series[m[1]].mesures[m[2]].dateFin>> :
        m \in Measurements171}

\* C26, as stated: for an R171 file the parser emits one record per input
\* measurement and, for each usage point and instant, one derived
\* energy/active/index record whose value is the sum of the
\* distributor-calendar class indexes at that instant and one derived max
\* record whose value is the maximum of the distributor-calendar class PMA
\* values at that instant.
C26_R171Totals ==
    (parser.pc = "read" /\ ~ parser.raised) =>
        /\ Cardinality(PerClass) = Cardinality(Measurements171)
        /\ \A key \in Instants171 :
              LET index == Derived(key[1], key[2], {<<"energy", "active", "index">>})
                  max == Derived(key[1], key[2], {<<"power", "apparent", "max">>,
                                                  <<"power", "active", "max">>})
                  pma == ClassValues(key[1], key[2], "PMA", {"VA", "W"})
              IN  /\ Cardinality(index) = 1
                  /\ \A k \in index : parser.records[k].value =
                        SetSum(ClassValues(key[1], key[2], "EA", {"Wh"}))
                  /\ Cardinality(max) = 1
                  /\ \A k \in max :
                        /\ \E x \in pma : x[2] = parser.records[k].value
                        /\ \A x \in pma : x[2] <= parser.records[k].value

\* C26, amended: the parser emits one record per input measurement of an
\* index (EA) or of a maximum (PMA); then, for each usage point and instant
\* for which consumption series of the distributor calendar give at least
\* one index, one derived energy/active/index record whose value is the sum
\* of these indexes, and for which they give at least one maximum, one
\* derived max record whose value is the largest of these maxima; no
\* derived record is emitted where there is no such value.
C26_R171HandledTotals ==
    (parser.pc = "read" /\ ~ parser.raised) =>
        /\ Cardinality(PerClass) =
              Cardinality({m \in Measurements171 :
                  parser.series[m[1]].grandeurPhysique \in {"EA", "PMA"}})
        /\ \A m \in Measurements171 :
              parser.series[m[1]].grandeurPhysique \in {"EA", "PMA"} =>
                  \E k \in PerClass :
                      /\ parser.records[k].name[1] = parser.series[m[1]].prmId
                      /\ parser.records[k].name[2][6] =
                            parser.series[m[1]].codeClasseTemporelle
                      /\ parser.records[k].time = parser.series[m[1]].mesures[m[2]].dateFin
                      /\ parser.records[k].value = parser.series[m[1]].mesures[m[2]].valeur
        /\ \A key \in Instants171 :
              LET index == Derived(key[1], key[2], {<<"energy", "active", "index">>})
                  ea == ClassValues(key[1], key[2], "EA", {"Wh"})
                  Max(kind, unit) ==
                      LET max == Derived(key[1], key[2], {kind})
                          pma == ClassValues(key[1], key[2], "PMA", {unit})
                      IN  /\ Cardinality(max) = (IF pma = {} THEN 0 ELSE 1)
                          /\ \A k \in max :
                                /\ \E x \in pma : x[2] = parser.records[k].value
                                /\ \A x \in pma : x[2] <= parser.records[k].value
              IN  /\ Cardinality(index) = (IF ea = {} THEN 0 ELSE 1)
                  /\ \A k \in index : parser.records[k].value = SetSum(ea)
                  /\ Max(<<"power", "apparent", "max">>, "VA")
                  /\ Max(<<"power", "active", "max">>, "W")

\* the indexes 100, 200 and 300 of three classes at one instant gave a
\* derived index of 600
C26_Witness ==
    /\ parser.pc = "read"
    /\ ~ parser.raised
    /\ Cardinality({parser.series[i].codeClasseTemporelle : i \in DOMAIN parser.series}) = 3
    /\ \E k \in Derived("p1", 1, {<<"energy", "active", "index">>}) :
          parser.records[k].value = 600

\* C27: consent_for adds a consent scope link only when no restricted
\* consent authorizes (user, usage_point, t) and the user has an open
\* consent valid at t, and the link it adds is the one of that open consent
\* to the usage point; in every other case (failure with PermissionError,
\* return of a restricted consent) the scope links are unchanged, and no
\* other operation of the handlers adds or removes a scope link.
C27_ScopeLinksFrame ==
    [][LET Authorizing ==
               {c \in ConsentIds :
                   /\ <<c, resolved'.user>> \in consents_users
                   /\ <<c, resolved'.up>> \in consents_usage_points
                   /\ consents[c].begins_at <= resolved'.t
                   /\ resolved'.t < consents[c].expires_at}
           OpenAndValid(c) ==
               /\ <<c, resolved'.user>> \in consents_users
               /\ consents[c].is_open
               /\ consents[c].begins_at <= resolved'.t
               /\ resolved'.t < consents[c].expires_at
       IN  /\ (resolved'.by # "none" /\ resolved'.added) =>
                 /\ Authorizing = {}
                 /\ OpenAndValid(resolved'.consent)
           /\ (resolved'.by # "none" /\ ~ resolved'.added) =>
                 /\ resolved'.links_added = 0
                 /\ consents_usage_points' = consents_usage_points
           /\ consents_usage_points' # consents_usage_points =>
                 /\ resolved'.by # "none"
                 /\ resolved'.added
                 /\ consents_usage_points' =
                       consents_usage_points \cup {<<resolved'.consent, resolved'.up>>}
      ]_vars

\* the link of an open consent was added for a request, and a later request
\* of the same user for the same usage point got the consent as a
\* restricted one, without a new link
C27_Witness ==
    /\ resolved.by = "handler"
    /\ resolved.ok
    /\ ~ resolved.added
    /\ consents[resolved.consent].is_open
    /\ <<resolved.consent, resolved.up>> \in consents_usage_points

\* C28: get_or_call_sge_subscription never returns an existing upstream
\* order whose expires_at is at or before the instant of the invocation: an
\* order is reused only while it is still valid at the time of the call.
C28_ReusedOrderIsValid ==
    (goc.up # "" /\ ~ goc.invoked /\ goc.returned # 0) =>
        orders[goc.returned].expires_at > now

\* C29: every upstream order created by get_or_call_sge_subscription has
\* expires_at = min(consent.expires_at, now + 365 days), now being the
\* instant of the call, hence its expires_at is never later than the
\* consent_expires_at of the call row it references.
C29_OrderExpiry ==
    \A o \in DOMAIN orders :
        LET row == webservices_calls[orders[o].webservices_call_id]
            consent_expires_at == consents[row.consent_id].expires_at
        IN  /\ orders[o].expires_at =
                  (IF consent_expires_at < row.called_at + Days365
                   THEN consent_expires_at
                   ELSE row.called_at + Days365)
            /\ orders[o].expires_at <= row.consent_expires_at

\* an order that ends 365 days after its call, before the consent does, and
\* another one that ends with the consent
C29_Witness ==
    /\ \E o \in DOMAIN orders :
          LET row == webservices_calls[orders[o].webservices_call_id]
          IN  /\ orders[o].expires_at = row.called_at + Days365
              /\ orders[o].expires_at < row.consent_expires_at
    /\ \E o \in DOMAIN orders :
          LET row == webservices_calls[orders[o].webservices_call_id]
          IN  /\ orders[o].expires_at < row.called_at + Days365
              /\ orders[o].expires_at = row.consent_expires_at

\* C30: expired_calls(now) returns exactly the required call types of the
\* series of the subscription for which no linked upstream order has
\* expires_at > now (an order that expires exactly at now counts as
\* expired), and raises ValueError for a series name outside the three
\* supported ones.
C30_ExpiredCalls ==
    expired # NoExpired =>
        LET linked == {o \in DOMAIN orders : <<expired.key, o>> \in subscriptions_calls}
            required == IF expired.key.series_name = RawSeries
                        THEN {"CONSUMPTION_CDC_ENABLE", "CONSUMPTION_CDC_RAW"}
                        ELSE {"CONSUMPTION_IDX"}
        IN  /\ expired.raised <=> expired.key.series_name \notin SupportedSeries
            /\ ~ expired.raised =>
                  expired.calls =
                     {ty \in required :
                         ~ \E o \in linked : /\ orders[o].call_type = ty
                                             /\ orders[o].expires_at > expired.t}

\* of the two call types of the load curve one has a linked order that
\* expires exactly at now and the other a linked order that is still valid
C30_Witness ==
    /\ expired # NoExpired
    /\ expired.key.series_name = RawSeries
    /\ expired.calls = {"CONSUMPTION_CDC_RAW"}
    /\ \E o \in DOMAIN orders :
          /\ <<expired.key, o>> \in subscriptions_calls
          /\ orders[o].call_type = "CONSUMPTION_CDC_RAW"
          /\ orders[o].expires_at = expired.t

C32_KeyRotation ==
    reader.pc = "read" =>
        LET file == reader.file
            out == reader.out
            opens == {k \in DOMAIN reader.keys :
                         reader.keys[k] = file.key /\ file.unzips}
            parsed == {k \in DOMAIN file.data :
                          \A j \in 1 .. k : file.data[j].kind = "record"}
        IN  /\ opens # {} =>
                  /\ \A k \in opens : out.left_behind + 1 <= k
                  /\ out.left_behind + 1 \in opens
                  /\ out.yielded = SubSeq(file.data, 1, Cardinality(parsed))
                  /\ out.error # "CorruptedFile"
                  /\ out.raised <=> Cardinality(parsed) < Len(file.data)
            /\ opens = {} =>
                  /\ out.yielded = <<>>
                  /\ out.raised /\ out.error = "CorruptedFile"
                  /\ out.left_behind = Len(reader.keys)

\* a file of two records that the first key of the list does not decrypt
\* and the second does was read to its end
C32_Witness ==
    /\ reader.pc = "read"
    /\ Len(reader.keys) = 2
    /\ reader.keys[1] # reader.file.key /\ reader.keys[2] = reader.file.key
    /\ reader.file.unzips
    /\ Len(reader.file.data) = 2 /\ reader.out.yielded = reader.file.data
    /\ ~reader.out.raised

\* ------------------------------------------------------------------ C33
\* C33: for a file that declares the step of 30 minutes, R50.records
\* raises exactly when, for some usage point, the median of the deltas
\* between consecutive samples, taken in the order of time, is not 30
\* minutes; the samples of a usage point read before that are emitted,
\* each 30 minutes before its stamp, and none of a usage point whose
\* median deviates.
C33_MedianOfDeltas ==
    (parser.pc = "read" /\ parser.series.period = 30) =>
        LET prms == parser.series.prms
            Kth(x, k) ==
                CHOOSE v \in {x[i] : i \in DOMAIN x} :
                    /\ Cardinality({i \in DOMAIN x : x[i] < v}) < k
                    /\ k <= Cardinality({i \in DOMAIN x : x[i] <= v})
            Samples(i) == SelectSeq(prms[i].pdc, LAMBDA pdc : pdc.V # NoValue)
            Stamps(i) == [k \in DOMAIN Samples(i) |-> Samples(i)[k].H]
            Deltas(i) == [k \in 1 .. Len(Samples(i)) - 1 |->
                             Kth(Stamps(i), k + 1) - Kth(Stamps(i), k)]
            Deviates(i) ==
                /\ Len(Samples(i)) > 1
                /\ Kth(Deltas(i), (Len(Deltas(i)) + 1) \div 2)
                       + Kth(Deltas(i), Len(Deltas(i)) \div 2 + 1) # 2 * 30
            Emitted(i) == SelectSeq(parser.records, LAMBDA rec : rec.name[1] = prms[i].id)
        IN  /\ parser.raised <=> \E i \in DOMAIN prms : Deviates(i)
            /\ \A i \in DOMAIN prms :
                  IF Deviates(i)
                  THEN Emitted(i) = <<>>
                  ELSE (\A j \in 1 .. i : ~Deviates(j)) =>
                          Emitted(i) = [k \in DOMAIN Samples(i) |->
                                           Record(<<prms[i].id,
                                                    <<"consumption", "power", "active",
                                                      "raw">>>>,
                                                  Samples(i)[k].H - 30, "W",
                                                  Samples(i)[k].V,
                                                  <<prms[i].id, "PT30M">>)]

\* ------------------------------------------------------------------ C34
\* C34: with the renewal script and the Subscribe handler running on the
\* same store, the two processes are never both inside a DSO subscribe call
\* for the same usage point and call type, and at most one order of a usage
\* point and call type is valid at any instant.
C34_OneOrderAcrossProcesses ==
    /\ ~ /\ h.pc = "subscribe" /\ r.pc = "subscribe"
         /\ h.up = r.sub.usage_point_id
         /\ Head(h.types) = r.ty
    /\ \A p \in usage_points :
       \A ty \in {orders[o].call_type : o \in DOMAIN orders} :
          Cardinality(OrdersAt(p, ty, now)) <= 1

\* ------------------------------------------------------------------ C35
\* C35: a step that answers a Subscribe submission with not-authorized or
\* with an upstream DSO error leaves no Subscription row of the requested
\* (user, usage point, series) in the store: the subscriptions are the ones
\* the store held when the submission arrived (a submission that reaches the
\* consent resolution found no row of its own).
C35_FailedSubscribeLeavesNoRow ==
    [][(/\ resp' # NoResp
        /\ resp'.kind = "subscribe"
        /\ resp'.result \in {"not-authorized", "upstream-error"})
       => IF h.pc = "idle"
          THEN subscriptions' = subscriptions
          ELSE \A sub \in subscriptions' :
                  KeyOf(sub) # SubKey(h.user, h.up, h.series)]_vars

\* ------------------------------------------------------------------ C36
\* C36: the client-consent declaration of the request Subscribe.subscribe
\* sends names exactly one issuer, personneMorale for a company and
\* personnePhysique otherwise, with the issuer name passed to this call,
\* whatever calls were made before in the process.
C36_OneIssuerDeclared ==
    [][\A call_type \in DOMAIN PARAMS, expires_at \in 1 .. MaxTime + 1,
          is_linky \in BOOLEAN, consent_issuer_is_company \in BOOLEAN,
          consent_issuer_name \in {"Dupont", "Lowatt"} :
          subscribe("p1", call_type, expires_at, is_linky, consent_issuer_is_company,
                    consent_issuer_name)
          => \A sent_demande \in demande' :
                sent_demande.accesMesures.declarationAccordClient =
                   IF consent_issuer_is_company
                   THEN [accord |-> "true",
                         personneMorale |->
                            [denominationSociale |-> consent_issuer_name]]
                   ELSE [accord |-> "true",
                         personnePhysique |-> [nom |-> consent_issuer_name]]]_vars

\* ------------------------------------------------------------------ C37
\* C37: in a publisher run, when the delivery to one subscription is
\* rejected on entering the notification check or fails in the send, the
\* run goes on: the subscriptions of the run that were not served yet and
\* have records in the group are still to be served.
C37_FailedDeliveryDoesNotStopOthers ==
    [][(/\ pub.pc \in {"notify", "send"}
        /\ sent'.sub = pub.sub
        /\ sent'.sub # NoSent.sub
        /\ ~sent'.entered \/ sent'.raised
        /\ \E key \in pub.todo : get(pub.records, key, ChunkSize) # <<>>)
       => /\ pub'.ended # "failed"
          /\ pub'.pc = "notify"
          /\ pub'.todo = pub.todo]_vars

\* ------------------------------------------------------------------ C38
\* C38: an unsubscribe submission whose identifier carries a series path
\* deletes only the subscriptions of the user on the usage point whose
\* series_name equals the path; every other subscription is left in place.
C38_UnsubscribeOnlyThatSeries ==
    [][\A i \in Cancelled :
          (SubmitUnsubscribe(i[1], i[2], i[3]) /\ i[3] # <<>>) =>
              \A sub \in subscriptions \ subscriptions' :
                 /\ sub.user_id = i[1]
                 /\ sub.usage_point_id = i[2]
                 /\ sub.series_name = i[3]]_vars

====
